---- MODULE Spec2Model ----
(***************************************************************************)
(* A model of the DAP client engine of mcp-debugger: the per-session       *)
(* request/response/event engine (src/src/dap/session.ts), and the status  *)
(* and wait-until-stopped inference the command handlers run over the      *)
(* session's event log (src/src/mcp/debuggerStatus.ts, debuggerEval.ts).   *)
(*                                                                         *)
(* Ordinals are the 0-based array indices of the TypeScript source; the    *)
(* i-th element of the JavaScript array `events` is events[i + 1] here.    *)
(***************************************************************************)
EXTENDS Integers, Sequences, FiniteSets, TLC

(***************************************************************************)
(* Bounds of the model.                                                    *)
(***************************************************************************)
\* requests a generic caller issues in the session-engine specification
MaxSeq == 2
\* events delivered in the session-engine specification
MaxEvents == 1
\* events delivered in the status specification
MaxLog == 3
\* the seq up to which a command may be started in the status specification
MaxCallSeq == 1
\* events delivered in the resume specification
MaxResumeLog == 1
\* the seq up to which a command may be started in the resume specification
MaxResumeSeq == 2
\* the largest timeout, in poll intervals, a wait-until-stopped call is given
MaxTimeout == 2
\* events delivered in the wait specification
MaxWaitLog == 2
\* the seq up to which each of two sessions may issue a request, and the
\* events each may log, in the two-session specification
MaxPeerSeq == 1
MaxPeerLog == 1
\* frames and other pieces the adapter writes in the codec specification
MaxFrames == 2
MaxOutput == 2
MaxStartSeq == 4
MaxBeyond == 1
MaxLongSeq == 1
\* registry calls served in the registry specification
MaxOps == 4
\* events delivered, the largest `since`, and the seq up to which a request
\* may be issued, in the event-log specification
MaxReadLog == 2
MaxSince == 2
MaxReadSeq == 1
\* the seq up to which a resume may be started in the termination specification
MaxTermSeq == 1
\* events delivered, and the seq up to which a command may be started, in the
\* failure specification
MaxFailLog == 1
MaxFailSeq == 2

(***************************************************************************)
(* Values.                                                                 *)
(***************************************************************************)
\* JavaScript null in `eventCountAtLastContinue: number | null`
Null == -1
\* an absent (undefined) threadId / id; falsy in `a || b`
NoThread == 0
\* an absent or empty (falsy) string
NoText == ""

\* response bodies: the list of ids of the items the body carries
\* (threads[].id, stackFrames[].id, scopes[].variablesReference, ...)
Bodies == {<<>>, <<2>>}

\* the `message` of a failure response (NoText: none given)
Messages == {NoText, "Server disconnected"}

\* inbound events; every event record has the same fields, the ones an
\* event does not carry are absent (NoText / NoThread / 0)
EventMsg(e, r, t, x) ==
  [type |-> "event", event |-> e, reason |-> r, threadId |-> t, exitCode |-> x]

EventMessages ==
  { EventMsg("stopped", "breakpoint", 1, 0),
    EventMsg("stopped", "step", NoThread, 0),
    EventMsg("continued", NoText, NoThread, 0),
    EventMsg("terminated", NoText, NoThread, 0),
    EventMsg("exited", NoText, NoThread, 1) }

\* inbound responses whose request_seq ranges over 1 .. n: a success
\* carries a body, a failure may carry a message
ResponseMessages(n) ==
  [type : {"response"}, request_seq : 1..n, success : {TRUE},
   message : {NoText}, body : Bodies]
  \cup
  [type : {"response"}, request_seq : 1..n, success : {FALSE},
   message : Messages, body : {<<>>}]

(***************************************************************************)
(* State.                                                                  *)
(***************************************************************************)
VARIABLES
  seq,                       \* DapSession.seq: the next seq to issue
  pending,                   \* DapSession.pending: seq -> command
  events,                    \* DapSession.events: the event log
  started,                   \* DapSession.started
  eventCountAtLastContinue,  \* DapSession.eventCountAtLastContinue
  process,                   \* DapSession.process is set (a live child)
  socketOpen,                \* the transport's socket has not been closed
  sent,                      \* the requests handed to transport.send, in order
  promises,                  \* the promises of request() still held: seq -> outcome
  statusCall,                \* debuggerStatus: position and locals of the call
  status,                    \* debuggerStatus: the `status` object it builds
  waitCall,                  \* debuggerWaitUntilBreakpoint: position and locals
  waitResult,                \* debuggerWaitUntilBreakpoint: the object it returns
  continueCall,              \* debuggerContinue: position and locals
  run,                       \* debuggerRun: position and locals of the call
  terminateCall,             \* debuggerTerminate: position and locals
  child,                     \* the adapter process spawned by debuggerRun
  conn,                      \* the connection of the transport's socket
  registry,                  \* SessionRegistry: sessions (ids) and lastSessionId
  serverUp,                  \* the server process has not died of an uncaught error
  history,                   \* the add and delete calls the registry has served
  stream,                    \* the bytes pushed into the DapReader so far, and in how many chunks
  buffer,                    \* DapReader.buffer: the bytes not yet consumed
  emitted,                   \* what the DapReader has emitted, in order
  peer,                      \* a second live session: its own fields
  lastRead,                  \* the last readEvents call: arguments and result
  stdio,                     \* child.stdout / child.stderr: what was written, what waits in the pipes, the 'data' events, who listens
  tempLogs,                  \* debuggerRun: tempLogs
  processLogs,               \* DapSession.processLogs
  overlapCall                \* a debuggerContinue call made while another is in progress

sessionVars ==
  <<seq, pending, events, started, eventCountAtLastContinue, process,
    socketOpen, sent, promises>>
handlerVars == <<statusCall, status, waitCall, waitResult, continueCall>>
serverVars == <<run, terminateCall, child, conn, registry, serverUp>>
readerVars == <<stream, buffer, emitted>>
outputVars == <<stdio, tempLogs, processLogs>>
asideVars == <<readerVars, peer, lastRead, outputVars, overlapCall>>
otherVars == <<history, asideVars>>
vars == <<sessionVars, handlerVars, serverVars, otherVars>>

\* the outcome of a promise
Pending == [st |-> "pending", body |-> <<>>, error |-> NoText]
Resolved(b) == [st |-> "resolved", body |-> b, error |-> NoText]
Rejected(e) == [st |-> "rejected", body |-> <<>>, error |-> e]

\* f with key k (re)bound to v, and f without key k
MapSet(f, k, v) == [x \in DOMAIN f \cup {k} |-> IF x = k THEN v ELSE f[x]]
MapDelete(f, k) == [x \in DOMAIN f \ {k} |-> f[x]]
EmptyMap == [x \in {} |-> 0]

\* no event (null / undefined where the source holds an event)
NoEvent == EventMsg(NoText, NoText, NoThread, 0)

\* the fields of a DapSession right after construction
NewSession ==
  [seq |-> 1, pending |-> EmptyMap, events |-> <<>>, promises |-> EmptyMap]

\* nothing has been pushed into the reader
NoStream == [bytes |-> <<>>, chunks |-> 0]

\* no readEvents call yet
\* the two output streams of the child
StdioTypes == {"stdout", "stderr"}

\* the streams of a child that has written nothing, with no 'data' listener
NoStdio ==
  [listener |-> "none",
   pipe |-> [t \in StdioTypes |-> <<>>],
   written |-> <<>>,
   data |-> <<>>]

NoRead == [since |-> 0, limit |-> 0, at |-> -1, events |-> <<>>, nextSeq |-> 0]

\* a handler that is not running
IdleCall == [pc |-> "idle"]
\* the locals of a debuggerRun call
RunCall(pc, type, await, start, error, attempts) ==
  [pc |-> pc, type |-> type, await |-> await, start |-> start,
   error |-> error, attempts |-> attempts]

\* no debuggerRun call has been made
NoRun == RunCall("idle", NoText, 0, 0, NoText, 0)

\* the `status` object before a call fills it in
NoStatus ==
  [state |-> NoText, started |-> FALSE, exitCode |-> 0, threads |-> <<>>,
   stoppedReason |-> NoText, stoppedThreadId |-> NoThread, error |-> NoText,
   stackTrace |-> <<>>, scopes |-> <<>>]
\* the result of a wait call before it returns
NoResult ==
  [success |-> FALSE, reason |-> NoText, elapsed |-> 0, threadId |-> NoThread,
   alreadyStopped |-> FALSE]

(***************************************************************************)
(* SessionRegistry                                                         *)
(***************************************************************************)
\* the id of the session this model follows, and of another session
SessionId == "s1"
OtherId == "s2"
\* the session ids the registry may hold, sessionCounter running from 1
SessionIds == {SessionId, OtherId, "s3"}
\* a sessionId argument that was left out (undefined)
Absent == "<undefined>"
\* `if (id)` on an optional string: undefined and "" are both falsy
given(id) == id \notin {Absent, NoText}

\* new SessionRegistry(): the ids in insertion order, and lastSessionId
NoSessions == [ids |-> <<>>, last |-> NoText]

\* an add that marks the session most recent only when no session is
RegisteredFirstOnly(reg, id) ==
  [ids |-> IF \E i \in 1..Len(reg.ids) : reg.ids[i] = id
             THEN reg.ids ELSE Append(reg.ids, id),
   last |-> IF reg.last = NoText THEN id ELSE reg.last]

\* SessionRegistry.add
Registered(reg, id) ==
  [ids |-> IF \E i \in 1..Len(reg.ids) : reg.ids[i] = id
             THEN reg.ids ELSE Append(reg.ids, id),
   last |-> id]

\* only lastSessionId is cleared, the entry stays in the map
DeletedLastOnly(reg, id) ==
  [ids |-> reg.ids, last |-> IF reg.last = id THEN NoText ELSE reg.last]

\* a delete that makes the last remaining session the most recent one
DeletedPromoting(reg, id) ==
  LET rest == SelectSeq(reg.ids, LAMBDA x : x # id) IN
  [ids |-> rest,
   last |-> IF reg.last # id THEN reg.last
            ELSE IF Len(rest) > 0 THEN rest[Len(rest)] ELSE NoText]

\* SessionRegistry.delete
Deleted(reg, id) ==
  [ids |-> SelectSeq(reg.ids, LAMBDA x : x # id),
   last |-> IF reg.last = id THEN NoText ELSE reg.last]

\* one call served by the registry
Op(op, id) == [op |-> op, id |-> id]

\* the add calls that built a registry holding `ids`, in order
Built(ids) == [i \in 1..Len(ids) |-> Op("add", ids[i])]

\* sessions.add(sess) and sessions.delete(id) as calls
sessionsAdd(id) ==
  /\ registry' = Registered(registry, id)
  /\ history' = Append(history, Op("add", id))

sessionsDelete(id) ==
  /\ registry' = Deleted(registry, id)
  /\ history' = Append(history, Op("delete", id))

\* sessions.get(id): the id when it is registered, else none (NoText)
Lookup(reg, id) ==
  IF \E i \in 1..Len(reg.ids) : reg.ids[i] = id THEN id ELSE NoText

\* a lookup without the fallback to the last registered session
getLastOrSpecificNoFallback(reg, id) ==
  IF given(id) THEN Lookup(reg, id)
  ELSE IF reg.last # NoText THEN Lookup(reg, reg.last)
  ELSE NoText

\* SessionRegistry.getLastOrSpecific(id); the session found, NoText for none
getLastOrSpecific(reg, id) ==
  IF given(id) THEN Lookup(reg, id)
  ELSE IF reg.last # NoText THEN Lookup(reg, reg.last)
  ELSE IF Len(reg.ids) > 0 THEN reg.ids[Len(reg.ids)]
  ELSE NoText

(***************************************************************************)
(* DapSession                                                              *)
(***************************************************************************)
\* the state of a session right after construction, its registration left
\* open; bootstrap stores the spawned child in `process`, a session built by
\* hand owns none
InitState ==
  /\ seq = 1
  /\ pending = EmptyMap
  /\ events = <<>>
  /\ started = FALSE
  /\ eventCountAtLastContinue = Null
  /\ process \in BOOLEAN
  /\ socketOpen = TRUE
  /\ sent = <<>>
  /\ promises = EmptyMap
  /\ statusCall = IdleCall
  /\ status = NoStatus
  /\ waitCall = IdleCall
  /\ waitResult = NoResult
  /\ continueCall = IdleCall
  /\ run = NoRun
  /\ terminateCall = IdleCall
  /\ child = IF process THEN "running" ELSE "none"
  /\ conn = "connected"
  /\ serverUp = TRUE
  /\ stream = NoStream
  /\ buffer = <<>>
  /\ emitted = <<>>
  /\ peer = NewSession
  /\ lastRead = NoRead
  /\ stdio = [NoStdio EXCEPT !.listener = IF process THEN "processLogs" ELSE "none"]
  /\ tempLogs = <<>>
  /\ processLogs = <<>>
  /\ overlapCall = IdleCall

\* a session the bootstrap has built is the one registered session
Init ==
  /\ InitState
  /\ registry = IF process THEN Registered(NoSessions, SessionId) ELSE NoSessions
  /\ history = Built(registry.ids)

\* the state of a session the bootstrap has built: it owns the child
InitSession == Init /\ process = TRUE

\* a rejection that does not look at the adapter's message
RejectionErrorGeneric(message, command) == "DAP error for " \o command

\* the Error a failure response rejects with
RejectionError(message, command) ==
  IF message # NoText THEN message ELSE "DAP error for " \o command

\* the oldest outstanding seq (0: none)
OldestPending ==
  IF DOMAIN pending = {} THEN 0
  ELSE CHOOSE k \in DOMAIN pending : \A j \in DOMAIN pending : k <= j

\* responses matched to requests in issue order, not by request_seq
PendingKeyFifo(response) ==
  IF OldestPending # 0 THEN OldestPending ELSE response.request_seq

\* an unmatched response handed to the oldest outstanding request
PendingKeyOrOldest(response) ==
  IF response.request_seq \in DOMAIN pending \/ OldestPending = 0
    THEN response.request_seq
    ELSE OldestPending

\* the key onMessage looks a response up by
PendingKey(response) == response.request_seq

\* the outcome onMessage settles the promise of `command` with
Settlement(response, command) ==
  IF response.success
    THEN Resolved(response.body)
    ELSE Rejected(RejectionError(response.message, command))

\* a response that settles the promise and leaves the entry in pending
onResponseKeepsPending(response) ==
  LET k == PendingKey(response) IN
  /\ IF k \in DOMAIN pending
       THEN /\ pending' = pending
            /\ promises' = MapSet(promises, k, Settlement(response, pending[k]))
       ELSE UNCHANGED <<pending, promises>>
  /\ UNCHANGED events

\* onMessage, m.type === "response"
onResponse(response) ==
  LET k == PendingKey(response) IN
  /\ IF k \in DOMAIN pending
       THEN /\ pending' = MapDelete(pending, k)
            /\ promises' = MapSet(promises, k, Settlement(response, pending[k]))
       ELSE UNCHANGED <<pending, promises>>
  /\ UNCHANGED events

\* the newest event is put first
onEventNewestFirst(event) ==
  /\ events' = <<event>> \o events
  /\ UNCHANGED <<pending, promises>>

\* onMessage, m.type === "event"
onEvent(event) ==
  /\ events' = Append(events, event)
  /\ UNCHANGED <<pending, promises>>

\* DapSession.onMessage, called for every message the transport decodes;
\* a closed (destroyed) socket delivers no more data
onMessage(m) ==
  /\ socketOpen
  /\ conn = "connected"
  /\ IF m.type = "response" THEN onResponse(m)
     ELSE IF m.type = "event" THEN onEvent(m)
     ELSE UNCHANGED <<pending, promises, events>>
  /\ UNCHANGED <<seq, started, eventCountAtLastContinue, process, socketOpen,
                 sent, handlerVars,
                 serverVars,
                 otherVars>>

\* a counter that starts over once a request has been rejected
NextSeqReuse(s) ==
  IF \E k \in DOMAIN promises : promises[k].st = "rejected" THEN 1 ELSE s + 1

\* the seq request() leaves in the counter after issuing `s`
NextSeq(s) == s + 1

\* DapSession.request(command, args), the new promise joining those in
\* `held`: `args` is the id the arguments carry (threadId, frameId,
\* variablesReference; 0 when they carry none)
issue(held, command, args) ==
  /\ seq' = NextSeq(seq)
  /\ pending' = MapSet(pending, seq, command)
  /\ promises' = MapSet(held, seq, Pending)
  /\ sent' = Append(sent, [seq |-> seq, type |-> "request",
                           command |-> command, arguments |-> args])

\* DapSession.request(command, args)
request(command, args) == issue(promises, command, args)

\* a handler's `await` has taken the outcome of promise k: the promise is
\* no longer held by anyone
Awaited(k) == MapDelete(promises, k)

\* a caller of the session issues a request and keeps the promise
Request(command) ==
  /\ request(command, 0)
  /\ UNCHANGED <<events, started, eventCountAtLastContinue, process,
                 socketOpen, handlerVars,
                 serverVars,
                 otherVars>>

\* child.kill(): a running child is signalled, one that is gone stays so
kill(c) == IF c = "running" THEN "killed" ELSE c

\* a close that keeps the process handle
closeSessionKeepsHandle ==
  /\ process' = process
  /\ child' = IF process THEN kill(child) ELSE child
  /\ socketOpen' = FALSE

\* DapSession.close: the process, when set, is killed and forgotten; the
\* transport's socket is ended and destroyed
closeSession ==
  /\ process' = FALSE
  /\ child' = IF process THEN kill(child) ELSE child
  /\ socketOpen' = FALSE

\* a close that rejects what is outstanding
closeRejecting ==
  /\ closeSession
  /\ promises' = [k \in DOMAIN promises |->
                    IF promises[k].st = "pending"
                      THEN Rejected("Session closed") ELSE promises[k]]
  /\ pending' = EmptyMap
  /\ UNCHANGED <<seq, events, started, eventCountAtLastContinue, sent,
                 handlerVars, run, terminateCall, conn, registry, serverUp,
                 otherVars>>

\* a caller closes the session
close ==
  /\ closeSession
  /\ UNCHANGED <<seq, pending, events, started, eventCountAtLastContinue, sent,
                 promises, handlerVars, run, terminateCall, conn, registry,
                 serverUp,
                 otherVars>>

\* a slice that starts one entry late
readEventsFromOne(since, limit) ==
  LET end == IF since + limit < Len(events) THEN since + limit ELSE Len(events)
  IN  SubSeq(events, since + 2, end)

\* DapSession.readEvents(since, limit).events
readEvents(since, limit) ==
  LET end == IF since + limit < Len(events) THEN since + limit ELSE Len(events)
  IN  SubSeq(events, since + 1, end)

\* DapSession.readEvents(since, limit).nextSeq
nextSeq(since, limit) == since + Len(readEvents(since, limit))

\* xs.reverse()
Reverse(xs) == [i \in 1..Len(xs) |-> xs[Len(xs) + 1 - i]]

\* the log after a handler reversed in place a list that is the log itself
afterReverseShared(log, list) == IF list = log THEN Reverse(log) ELSE log

\* the log after a handler reversed in place the list readEvents returned:
\* slice has made a new array, the log is as it was
afterReverse(log, list) == log

\* a readEvents(since, limit) call; with `reverses` the caller goes on to
\* reverse the returned list in place, as debuggerContinue does
readEventsCall(since, limit, reverses) ==
  /\ lastRead' = [since |-> since, limit |-> limit, at |-> Len(events),
                  events |-> readEvents(since, limit),
                  nextSeq |-> nextSeq(since, limit)]
  /\ events' = IF reverses THEN afterReverse(events, readEvents(since, limit))
                ELSE events
  /\ UNCHANGED <<seq, pending, started, eventCountAtLastContinue, process,
                 socketOpen, sent, promises, handlerVars, serverVars, history,
                 readerVars, peer,
                 outputVars, overlapCall>>

(***************************************************************************)
(* Status inference: debuggerStatus                                        *)
(***************************************************************************)
\* the limit of the handlers' readEvents(0, 10000)
ReadLimit == 10000

\* only the newest event is looked at
hasTerminatedLast(evs) ==
  Len(evs) > 0 /\ evs[Len(evs)].event = "terminated"

\* allEvents.some((e) => e.event === "terminated")
hasTerminated(evs) == \E i \in 1..Len(evs) : evs[i].event = "terminated"

\* events.find((e) => e.event === "exited"): its exitCode, 0 when there is none
exitCodeOf(evs) ==
  LET found == {i \in 1..Len(evs) : evs[i].event = "exited"} IN
  IF found = {} THEN 0
  ELSE evs[CHOOSE i \in found : \A j \in found : i <= j].exitCode

\* the backward loop over the log, from ordinal i down: the ordinals of the
\* last stopped and the last continued event (-1: none), leaving the loop
\* once both are found
RECURSIVE ScanBack(_, _, _, _)
ScanBack(evs, i, stoppedIndex, continuedIndex) ==
  IF i < 0 THEN [stopped |-> stoppedIndex, continued |-> continuedIndex]
  ELSE
    LET s == IF stoppedIndex = -1 /\ evs[i + 1].event = "stopped"
               THEN i ELSE stoppedIndex
        c == IF continuedIndex = -1 /\ evs[i + 1].event = "continued"
               THEN i ELSE continuedIndex
    IN  IF s # -1 /\ c # -1
          THEN [stopped |-> s, continued |-> c]
          ELSE ScanBack(evs, i - 1, s, c)

lastIndexes(evs) == ScanBack(evs, Len(evs) - 1, -1, -1)

\* continueIsMoreRecent of debuggerStatus
continueIsMoreRecent(lastStoppedIndex, marker) ==
  marker # Null /\ lastStoppedIndex < marker

\* !session.eventCountAtLastContinue: null and 0 are both falsy
markerFalsy(marker) == marker = Null \/ marker = 0

\* the state debuggerStatus infers from the events it read and the marker
inferState(evs, marker) ==
  LET last == lastIndexes(evs)
      hasStarted == last.stopped # -1 \/ last.continued # -1
  IN  IF hasTerminated(evs) THEN "terminated"
      ELSE IF ~hasStarted /\ markerFalsy(marker) THEN "not_started"
      ELSE IF continueIsMoreRecent(last.stopped, marker) THEN "running"
      ELSE IF last.stopped # -1
              /\ (last.continued = -1 \/ last.stopped > last.continued)
        THEN "stopped"
      ELSE "running"

\* the oldest stopped event instead of the newest
firstStoppedEventOf(evs) ==
  LET found == {i \in 1..Len(evs) : evs[i].event = "stopped"} IN
  IF found = {} THEN NoEvent
  ELSE evs[CHOOSE i \in found : \A j \in found : i <= j]

\* lastStoppedEvent of the backward loop
lastStoppedEventOf(evs) ==
  LET last == lastIndexes(evs) IN
  IF last.stopped = -1 THEN NoEvent ELSE evs[last.stopped + 1]

\* a || b on ids
OrElse(a, b) == IF a # NoThread THEN a ELSE b

\* xs[0]?.id
FirstId(xs) == IF Len(xs) > 0 THEN xs[1] ELSE NoThread

\* errorMessage.includes("disconnected") || errorMessage.includes("Server"),
\* over the error texts of the model
saysDisconnected(error) == error = "Server disconnected"

\* commands are issued one at a time: no handler call is in progress
handlersIdle ==
  /\ statusCall.pc = "idle"
  /\ waitCall.pc = "idle"
  /\ continueCall.pc = "idle"

\* debuggerStatus up to its first await: the terminated answer, or the
\* inferred state and the threads request
debuggerStatus ==
  /\ handlersIdle
  /\ LET evs == readEvents(0, ReadLimit)
         state == inferState(evs, eventCountAtLastContinue)
     IN  IF hasTerminated(evs)
           THEN /\ status' = [NoStatus EXCEPT !.started = started,
                                              !.state = "terminated",
                                              !.exitCode = exitCodeOf(evs)]
                /\ statusCall' = [pc |-> "done"]
                /\ UNCHANGED <<seq, pending, promises, sent>>
           ELSE /\ status' = [NoStatus EXCEPT !.started = started,
                                              !.state = state]
                /\ request("threads", 0)
                /\ statusCall' = [pc |-> "threads", await |-> seq,
                                  lastStoppedEvent |-> lastStoppedEventOf(evs)]
  /\ UNCHANGED <<events, started, eventCountAtLastContinue, process,
                 socketOpen, waitCall, waitResult, continueCall,
                 serverVars,
                 otherVars>>

\* the promise the status call awaits has been settled
statusResumes(pc) ==
  /\ statusCall.pc = pc
  /\ promises[statusCall.await].st # "pending"

\* debuggerStatus after `await session.request("threads")`
statusThreads ==
  /\ statusResumes("threads")
  /\ LET p == promises[statusCall.await]
         ev == statusCall.lastStoppedEvent
         threadId == OrElse(ev.threadId, FirstId(p.body))
     IN  IF p.st = "rejected"
           THEN /\ status' =
                     IF saysDisconnected(p.error)
                       THEN [status EXCEPT !.state = "disconnected"]
                       ELSE [status EXCEPT !.error = p.error]
                /\ statusCall' = [pc |-> "done"]
                /\ promises' = Awaited(statusCall.await)
                /\ UNCHANGED <<seq, pending, sent>>
         ELSE IF status.state = "stopped" /\ ev # NoEvent
                 /\ threadId # NoThread
           THEN /\ status' = [status EXCEPT !.threads = p.body,
                                            !.stoppedReason = ev.reason,
                                            !.stoppedThreadId = threadId]
                /\ issue(Awaited(statusCall.await), "stackTrace", threadId)
                /\ statusCall' = [statusCall EXCEPT !.pc = "stackTrace",
                                                    !.await = seq]
           ELSE /\ status' = [status EXCEPT !.threads = p.body]
                /\ statusCall' = [pc |-> "done"]
                /\ promises' = Awaited(statusCall.await)
                /\ UNCHANGED <<seq, pending, sent>>
  /\ UNCHANGED <<events, started, eventCountAtLastContinue, process,
                 socketOpen, waitCall, waitResult, continueCall,
                 serverVars,
                 otherVars>>

\* the status call returns what it has built so far
statusDone ==
  /\ statusCall' = [pc |-> "done"]
  /\ promises' = Awaited(statusCall.await)
  /\ UNCHANGED <<seq, pending, sent>>

\* debuggerStatus after `await session.request("stackTrace")`
statusStackTrace ==
  /\ statusResumes("stackTrace")
  /\ LET p == promises[statusCall.await] IN
     IF p.st = "rejected"
       THEN /\ statusDone
            /\ UNCHANGED status
     ELSE IF Len(p.body) > 0
       THEN /\ status' = [status EXCEPT !.stackTrace = p.body]
            /\ issue(Awaited(statusCall.await), "scopes", p.body[1])
            /\ statusCall' = [statusCall EXCEPT !.pc = "scopes", !.await = seq]
       ELSE /\ status' = [status EXCEPT !.stackTrace = p.body]
            /\ statusDone
  /\ UNCHANGED <<events, started, eventCountAtLastContinue, process,
                 socketOpen, waitCall, waitResult, continueCall,
                 serverVars,
                 otherVars>>

\* debuggerStatus after `await session.request("scopes")`: the loop over
\* the scopes starts
statusScopes ==
  /\ statusResumes("scopes")
  /\ LET p == promises[statusCall.await] IN
     IF p.st = "rejected"
       THEN /\ statusDone
            /\ UNCHANGED status
     ELSE IF Len(p.body) > 0
       THEN /\ UNCHANGED status
            /\ issue(Awaited(statusCall.await), "variables", p.body[1])
            /\ statusCall' = [pc |-> "variables", await |-> seq,
                              lastStoppedEvent |-> statusCall.lastStoppedEvent,
                              scopesLeft |-> Tail(p.body)]
       ELSE /\ UNCHANGED status
            /\ statusDone
  /\ UNCHANGED <<events, started, eventCountAtLastContinue, process,
                 socketOpen, waitCall, waitResult, continueCall,
                 serverVars,
                 otherVars>>

\* debuggerStatus after `await session.request("variables")`, in the loop
statusVariables ==
  /\ statusResumes("variables")
  /\ LET p == promises[statusCall.await] IN
     IF p.st = "rejected"
       THEN /\ statusDone
            /\ UNCHANGED status
     ELSE IF Len(statusCall.scopesLeft) > 0
       THEN /\ status' = [status EXCEPT !.scopes = Append(@, p.body)]
            /\ issue(Awaited(statusCall.await), "variables",
                     statusCall.scopesLeft[1])
            /\ statusCall' = [statusCall EXCEPT
                                !.await = seq, !.scopesLeft = Tail(@)]
       ELSE /\ status' = [status EXCEPT !.scopes = Append(@, p.body)]
            /\ statusDone
  /\ UNCHANGED <<events, started, eventCountAtLastContinue, process,
                 socketOpen, waitCall, waitResult, continueCall,
                 serverVars,
                 otherVars>>

\* the status object has been handed to the caller
statusReturn ==
  /\ statusCall.pc = "done"
  /\ statusCall' = IdleCall
  /\ status' = NoStatus
  /\ UNCHANGED <<sessionVars, waitCall, waitResult, continueCall,
                 serverVars,
                 otherVars>>

(***************************************************************************)
(* Wait until stopped: debuggerWaitUntilBreakpoint                         *)
(***************************************************************************)
\* isCurrentlyStopped() over the events it read
isCurrentlyStopped(evs) ==
  LET last == lastIndexes(evs)
      isStopped == last.stopped # -1
                   /\ (last.continued = -1 \/ last.stopped > last.continued)
  IN  IF hasTerminated(evs)
        THEN [stopped |-> TRUE, reason |-> "terminated", event |-> NoEvent]
        ELSE [stopped |-> isStopped, reason |-> NoText,
              event |-> IF isStopped THEN evs[last.stopped + 1] ELSE NoEvent]

\* a || b on texts
OrText(a, b) == IF a # NoText THEN a ELSE b

\* the object a wait call answers a stop found after `elapsed` with
stopOutcome(state, elapsed, already) ==
  IF state.reason = "terminated"
    THEN [NoResult EXCEPT !.success = TRUE, !.reason = "terminated",
                          !.elapsed = elapsed, !.alreadyStopped = already]
    ELSE [NoResult EXCEPT !.success = TRUE,
                          !.reason = OrText(state.event.reason, "stopped"),
                          !.elapsed = elapsed,
                          !.threadId = state.event.threadId,
                          !.alreadyStopped = already]

\* the number of events logged before the call's startTime: those whose
\* receipt timestamp precedes it
startLen ==
  IF waitCall.pc = "polling" THEN waitCall.startLen ELSE Len(events)

\* a check that reports the timeout one poll interval early
checkForStopEarly(elapsed, timeout) ==
  LET state == isCurrentlyStopped(readEvents(0, ReadLimit)) IN
  IF elapsed + 1 >= timeout
    THEN /\ waitResult' = [NoResult EXCEPT !.reason = "timeout",
                                           !.elapsed = elapsed]
         /\ waitCall' = [pc |-> "done"]
  ELSE IF state.stopped
    THEN /\ waitResult' = stopOutcome(state, elapsed, FALSE)
         /\ waitCall' = [pc |-> "done"]
  ELSE /\ waitResult' = NoResult
       /\ waitCall' = [pc |-> "polling", timeout |-> timeout,
                       elapsed |-> elapsed, startLen |-> startLen]

\* checkForStop() called `elapsed` after the start of a call with `timeout`
checkForStop(elapsed, timeout) ==
  LET state == isCurrentlyStopped(readEvents(0, ReadLimit)) IN
  IF elapsed >= timeout
    THEN /\ waitResult' = [NoResult EXCEPT !.reason = "timeout",
                                           !.elapsed = elapsed]
         /\ waitCall' = [pc |-> "done"]
  ELSE IF state.stopped
    THEN /\ waitResult' = stopOutcome(state, elapsed, FALSE)
         /\ waitCall' = [pc |-> "done"]
  ELSE /\ waitResult' = NoResult
       /\ waitCall' = [pc |-> "polling", timeout |-> timeout,
                       elapsed |-> elapsed, startLen |-> startLen]

\* debuggerWaitUntilBreakpoint up to its first timer: the check for
\* "already stopped", then the first checkForStop(). Time is counted in
\* poll intervals (checkInterval)
debuggerWaitUntilBreakpoint(timeout) ==
  /\ handlersIdle
  /\ LET currentState == isCurrentlyStopped(readEvents(0, ReadLimit)) IN
     IF currentState.stopped
       THEN /\ waitResult' = stopOutcome(currentState, 0, TRUE)
            /\ waitCall' = [pc |-> "done"]
       ELSE checkForStop(0, timeout)
  /\ UNCHANGED <<sessionVars, statusCall, status, continueCall,
                 serverVars,
                 otherVars>>

\* the timer set by setTimeout(checkForStop, checkInterval) fires
waitPoll ==
  /\ waitCall.pc = "polling"
  /\ checkForStop(waitCall.elapsed + 1, waitCall.timeout)
  /\ UNCHANGED <<sessionVars, statusCall, status, continueCall,
                 serverVars,
                 otherVars>>

\* the result has been handed to the caller
waitReturn ==
  /\ waitCall.pc = "done"
  /\ waitCall' = IdleCall
  /\ waitResult' = NoResult
  /\ UNCHANGED <<sessionVars, statusCall, status, continueCall,
                 serverVars,
                 otherVars>>

(***************************************************************************)
(* Resume: debuggerContinue, and the continue marker                       *)
(***************************************************************************)
\* readEvents(0, 10000).events.reverse().find((e) => e.event === "stopped"):
\* the thread the continue request names, 1 by default
continueThreadId(evs) == OrElse(lastStoppedEventOf(evs).threadId, 1)

\* debuggerContinue up to its await
debuggerContinue ==
  /\ handlersIdle
  /\ IF ~started
       THEN request("configurationDone", 0)
       ELSE request("continue", continueThreadId(readEvents(0, ReadLimit)))
  /\ continueCall' = [pc |-> IF ~started THEN "configurationDone"
                             ELSE "continue",
                      await |-> seq]
  /\ UNCHANGED <<events, started, eventCountAtLastContinue, process,
                 socketOpen, statusCall, status, waitCall, waitResult,
                 serverVars,
                 otherVars>>

\* `started` is set whatever the outcome of configurationDone
continueResumesAnyOutcome ==
  /\ continueCall.pc # "idle"
  /\ promises[continueCall.await].st # "pending"
  /\ started' = IF continueCall.pc = "configurationDone" THEN TRUE
                  ELSE started
  /\ promises' = Awaited(continueCall.await)
  /\ continueCall' = IdleCall
  /\ UNCHANGED <<seq, pending, events, eventCountAtLastContinue, process,
                 socketOpen, sent, statusCall, status, waitCall, waitResult,
                 serverVars,
                 otherVars>>

\* debuggerContinue after its await: a resolved configurationDone sets
\* `started`; a rejection is thrown to the caller
continueResumes ==
  /\ continueCall.pc # "idle"
  /\ promises[continueCall.await].st # "pending"
  /\ started' = IF continueCall.pc = "configurationDone"
                   /\ promises[continueCall.await].st = "resolved"
                  THEN TRUE ELSE started
  /\ promises' = Awaited(continueCall.await)
  /\ continueCall' = IdleCall
  /\ UNCHANGED <<seq, pending, events, eventCountAtLastContinue, process,
                 socketOpen, sent, statusCall, status, waitCall, waitResult,
                 serverVars,
                 otherVars>>

\* a second debuggerContinue call, made while the first awaits its response
debuggerContinueOverlapping ==
  /\ continueCall.pc # "idle"
  /\ overlapCall.pc = "idle"
  /\ IF ~started
       THEN request("configurationDone", 0)
       ELSE request("continue", continueThreadId(readEvents(0, ReadLimit)))
  /\ overlapCall' = [pc |-> IF ~started THEN "configurationDone"
                            ELSE "continue",
                     await |-> seq]
  /\ UNCHANGED <<events, started, eventCountAtLastContinue, process,
                 socketOpen, handlerVars, serverVars, history, readerVars,
                 peer, lastRead, outputVars>>

\* the second call after its await
overlapResumes ==
  /\ overlapCall.pc # "idle"
  /\ promises[overlapCall.await].st # "pending"
  /\ started' = IF overlapCall.pc = "configurationDone"
                   /\ promises[overlapCall.await].st = "resolved"
                  THEN TRUE ELSE started
  /\ promises' = Awaited(overlapCall.await)
  /\ overlapCall' = IdleCall
  /\ UNCHANGED <<seq, pending, events, eventCountAtLastContinue, process,
                 socketOpen, sent, handlerVars, serverVars, history,
                 readerVars, peer, lastRead, outputVars>>

\* the continue marker is recorded: the length of the event log at the
\* moment a resume command is issued
markContinue ==
  /\ eventCountAtLastContinue' = Len(events)
  /\ UNCHANGED <<seq, pending, events, started, process, socketOpen, sent,
                 promises, handlerVars,
                 serverVars,
                 otherVars>>

\* the session this model follows is in the registry
IsRegistered == Lookup(registry, SessionId) # NoText

(***************************************************************************)
(* Adapter bootstrap: debuggerRun                                          *)
(***************************************************************************)
\* the debugger types: debugpy starts by attach, the LLDB types by launch
Flavors == {"debugpy", "lldb", "lldb-rust"}

\* initialRequestType of spawnDebugger
startRequest(type) == IF type = "debugpy" THEN "attach" ELSE "launch"

\* maxRetries of the connection loop
maxRetries == 5

\* debuggerRun up to the first timer of the connection loop: the check of
\* the arguments, adapter discovery (ensureDebugpy / ensureLLDB) and the
\* spawn of the adapter; nargs is args.length, found the outcome of discovery
debuggerRun(type, nargs, found) ==
  /\ serverUp
  /\ run.pc = "idle"
  /\ IF nargs = 0
       THEN /\ run' = RunCall("failed", type, 0, 0, "No arguments provided", 0)
            /\ UNCHANGED child
     ELSE IF ~found
       THEN /\ run' = RunCall("failed", type, 0, 0, "adapter not available", 0)
            /\ UNCHANGED child
     ELSE /\ run' = RunCall("delay", type, 0, 0, NoText, 0)
          /\ child' = "running"
  /\ IF nargs # 0 /\ found
       THEN /\ \E l \in {"none", "tempLogs"} :
                 stdio' = [NoStdio EXCEPT !.listener = l]
            /\ tempLogs' = <<>>
       ELSE UNCHANGED <<stdio, tempLogs>>
  /\ UNCHANGED <<sessionVars, handlerVars, terminateCall, conn, registry,
                 serverUp, history, readerVars, peer, lastRead, processLogs,
                 overlapCall>>

\* the new session's log is always empty: what tempLogs holds is left behind
switchOverEmpty ==
  /\ processLogs' = <<>>
  /\ stdio' = [stdio EXCEPT !.listener = "processLogs"]
  /\ UNCHANGED tempLogs

\* the session's log becomes the array the temporary listeners filled, or a
\* new array where there were none, and the 'data' listeners of both streams
\* are replaced by ones that push to the session's log
switchOver ==
  /\ processLogs' = IF stdio.listener = "tempLogs" THEN tempLogs ELSE <<>>
  /\ stdio' = [stdio EXCEPT !.listener = "processLogs"]
  /\ UNCHANGED tempLogs

\* the timer of the loop's first iteration fires: new TcpTransport starts to
\* connect and returns, the session is built on it, the loop is left, the
\* session is registered and given the child, and initialize is requested.
\* net.createConnection reports a failed connection by an 'error' event and
\* never by an exception, so no iteration enters the catch of the loop
runConnect ==
  /\ serverUp
  /\ run.pc = "delay"
  /\ run.attempts < maxRetries
  /\ conn' = "connecting"
  /\ sessionsAdd(SessionId)
  /\ process' = TRUE
  /\ switchOver
  /\ request("initialize", 0)
  /\ run' = [run EXCEPT !.pc = "initialize", !.await = seq,
                        !.attempts = @ + 1]
  /\ UNCHANGED <<events, started, eventCountAtLastContinue, socketOpen,
                 handlerVars, terminateCall, child, serverUp,
                 readerVars, peer, lastRead,
                 overlapCall>>

\* the adapter accepts the connection
socketConnects ==
  /\ conn = "connecting"
  /\ socketOpen
  /\ child = "running"
  /\ conn' = "connected"
  /\ UNCHANGED <<sessionVars, handlerVars, run, terminateCall, child,
                 registry, serverUp,
                 otherVars>>

\* the socket reports an error (connection refused, connection reset):
\* TcpTransport re-emits it as its own 'error' event, which has no listener,
\* so the emit throws and the server process dies of the uncaught exception
socketFails ==
  /\ serverUp
  /\ socketOpen
  /\ conn \in {"connecting", "connected"}
  /\ conn' = IF conn = "connecting" THEN "refused" ELSE "reset"
  /\ serverUp' = FALSE
  /\ UNCHANGED <<sessionVars, handlerVars, run, terminateCall, child,
                 registry, otherVars>>

\* the adapter process exits by itself
childExits ==
  /\ child = "running"
  /\ child' = "exited"
  /\ UNCHANGED <<sessionVars, handlerVars, run, terminateCall, conn,
                 registry, serverUp,
                 otherVars>>

\* the peer is gone and the socket closes without an error: the transport
\* emits 'exit', the session re-emits it, nobody listens
socketEnds ==
  /\ conn = "connected"
  /\ child # "running"
  /\ conn' = "ended"
  /\ UNCHANGED <<sessionVars, handlerVars, run, terminateCall, child,
                 registry, serverUp,
                 otherVars>>

\* the promise the bootstrap awaits has been settled
runResumes(pc) ==
  /\ serverUp
  /\ run.pc = pc
  /\ promises[run.await].st # "pending"

\* debuggerRun after `await sess.request("initialize")`: a rejection closes
\* the session and fails the call; otherwise the start request is sent
\* without being awaited and, but for lldb-rust, the session id is returned
runInitialize ==
  /\ runResumes("initialize")
  /\ LET p == promises[run.await] IN
     IF p.st = "rejected"
       THEN /\ closeSession
            /\ promises' = Awaited(run.await)
            /\ run' = [run EXCEPT
                         !.pc = "failed",
                         !.error = "Failed to initialize DAP session: "
                                     \o p.error]
            /\ UNCHANGED <<seq, pending, sent>>
       ELSE /\ issue(Awaited(run.await), startRequest(run.type), 0)
            /\ run' = [run EXCEPT
                         !.pc = IF run.type = "lldb-rust" THEN "rustc"
                                ELSE "done",
                         !.start = seq]
            /\ UNCHANGED <<process, child, socketOpen>>
  /\ UNCHANGED <<events, started, eventCountAtLastContinue, handlerVars,
                 terminateCall, conn, registry, serverUp,
                 otherVars>>

\* the attach promise is settled: .then sets `started`, .catch logs
runAttach ==
  /\ serverUp
  /\ run.start \in DOMAIN promises
  /\ startRequest(run.type) = "attach"
  /\ promises[run.start].st # "pending"
  /\ started' = IF promises[run.start].st = "resolved" THEN TRUE ELSE started
  /\ promises' = Awaited(run.start)
  /\ UNCHANGED <<seq, pending, events, eventCountAtLastContinue, process,
                 socketOpen, sent, handlerVars, serverVars,
                 otherVars>>

\* the launch promise, which has no handler, is settled: a rejection is an
\* unhandled rejection, of which the server process dies or not (`dies`)
\* depending on the runtime
launchSettles(dies) ==
  /\ serverUp
  /\ run.start \in DOMAIN promises
  /\ startRequest(run.type) = "launch"
  /\ promises[run.start].st # "pending"
  /\ serverUp' = IF promises[run.start].st = "rejected" /\ dies
                   THEN FALSE ELSE TRUE
  /\ promises' = Awaited(run.start)
  /\ UNCHANGED <<seq, pending, events, started, eventCountAtLastContinue,
                 process, socketOpen, sent, handlerVars, run, terminateCall,
                 child, conn, registry, otherVars>>

\* lldb-rust, after `await ensureRustCompiler()`: the first evaluate is
\* requested, or the failure is logged and the session id returned
runRustc(ok) ==
  /\ serverUp
  /\ run.pc = "rustc"
  /\ IF ok
       THEN /\ request("evaluate", 0)
            /\ run' = [run EXCEPT !.pc = "evaluate1", !.await = seq]
       ELSE /\ run' = [run EXCEPT !.pc = "done"]
            /\ UNCHANGED <<seq, pending, promises, sent>>
  /\ UNCHANGED <<events, started, eventCountAtLastContinue, process,
                 socketOpen, handlerVars, terminateCall, child, conn,
                 registry, serverUp,
                 otherVars>>

\* lldb-rust, after the first `await sess.request("evaluate")`
runEvaluate1 ==
  /\ runResumes("evaluate1")
  /\ IF promises[run.await].st = "resolved"
       THEN /\ issue(Awaited(run.await), "evaluate", 0)
            /\ run' = [run EXCEPT !.pc = "evaluate2", !.await = seq]
       ELSE /\ promises' = Awaited(run.await)
            /\ run' = [run EXCEPT !.pc = "done"]
            /\ UNCHANGED <<seq, pending, sent>>
  /\ UNCHANGED <<events, started, eventCountAtLastContinue, process,
                 socketOpen, handlerVars, terminateCall, child, conn,
                 registry, serverUp,
                 otherVars>>

\* lldb-rust, after the second `await sess.request("evaluate")`
runEvaluate2 ==
  /\ runResumes("evaluate2")
  /\ promises' = Awaited(run.await)
  /\ run' = [run EXCEPT !.pc = "done"]
  /\ UNCHANGED <<seq, pending, events, started, eventCountAtLastContinue,
                 process, socketOpen, sent, handlerVars, terminateCall, child,
                 conn, registry, serverUp,
                 otherVars>>

(***************************************************************************)
(* Termination: debuggerTerminate                                          *)
(***************************************************************************)
\* the locals of a debuggerTerminate call: the session it resolved
\* (actualSessionId), the request it awaits, the error it throws
TerminateCall(pc, target, await, error) ==
  [pc |-> pc, target |-> target, await |-> await, error |-> error]

\* the error of a handler whose session lookup found nothing
NotFound(id) ==
  IF given(id) THEN "Session " \o id \o " not found"
  ELSE "No active debug session"

\* debuggerTerminate from the kill on: the process is killed, the session
\* closed and its registry entry deleted
terminateFinish ==
  /\ closeSession
  /\ sessionsDelete(SessionId)

\* debuggerTerminate(sessionId) up to its await (NoText: no id given).
\* Of another session only the registry entry is followed
debuggerTerminate(id) ==
  /\ serverUp
  /\ terminateCall.pc = "idle"
  /\ LET target == getLastOrSpecific(registry, id) IN
     IF target = NoText
       THEN /\ terminateCall' = TerminateCall("failed", NoText, 0, NotFound(id))
            /\ UNCHANGED <<seq, pending, promises, sent, process, child,
                           socketOpen, registry, history>>
     ELSE IF target # SessionId
       THEN /\ terminateCall' = TerminateCall("done", target, 0, NoText)
            /\ sessionsDelete(target)
            /\ UNCHANGED <<seq, pending, promises, sent, process, child,
                           socketOpen>>
     ELSE IF started
       THEN /\ request("disconnect", 0)
            /\ terminateCall' = TerminateCall("disconnect", target, seq, NoText)
            /\ UNCHANGED <<process, child, socketOpen, registry, history>>
     ELSE /\ terminateFinish
          /\ terminateCall' = TerminateCall("done", target, 0, NoText)
          /\ UNCHANGED <<seq, pending, promises, sent>>
  /\ UNCHANGED <<events, started, eventCountAtLastContinue, handlerVars, run,
                 conn, serverUp, asideVars>>

\* debuggerTerminate after `await session.request("disconnect")`: resolved,
\* or rejected and logged
terminateResumes ==
  /\ serverUp
  /\ terminateCall.pc = "disconnect"
  /\ promises[terminateCall.await].st # "pending"
  /\ promises' = Awaited(terminateCall.await)
  /\ terminateFinish
  /\ terminateCall' = [terminateCall EXCEPT !.pc = "done"]
  /\ UNCHANGED <<seq, pending, events, started, eventCountAtLastContinue,
                 sent, handlerVars, run, conn, serverUp, asideVars>>

\* the result or the error has been handed to the caller
terminateReturn ==
  /\ terminateCall.pc \in {"done", "failed"}
  /\ terminateCall' = IdleCall
  /\ UNCHANGED <<sessionVars, handlerVars, run, child, conn, registry,
                 serverUp,
                 otherVars>>

(***************************************************************************)
(* A second session: the same class over its own transport and fields.     *)
(***************************************************************************)
\* DapSession.request(command, args) on the second session
peerRequest(command) ==
  /\ peer' = [peer EXCEPT !.seq = NextSeq(peer.seq),
                          !.pending = MapSet(peer.pending, peer.seq, command),
                          !.promises = MapSet(peer.promises, peer.seq, Pending)]
  /\ UNCHANGED <<sessionVars, handlerVars, serverVars, history, readerVars,
                 lastRead,
                 outputVars, overlapCall>>

\* the second session after its onMessage(m)
peerReceived(m) ==
  IF m.type = "response"
    THEN IF m.request_seq \in DOMAIN peer.pending
           THEN [peer EXCEPT
                   !.pending = MapDelete(peer.pending, m.request_seq),
                   !.promises = MapSet(peer.promises, m.request_seq,
                                       Settlement(m, peer.pending[m.request_seq]))]
           ELSE peer
  ELSE IF m.type = "event"
    THEN [peer EXCEPT !.events = Append(peer.events, m)]
  ELSE peer

\* a message on the second session's transport that also reaches the
\* pending map of the first
peerOnMessageShared(m) ==
  /\ peer' = peerReceived(m)
  /\ IF m.type = "response" /\ m.request_seq \in DOMAIN pending
       THEN /\ pending' = MapDelete(pending, m.request_seq)
            /\ promises' = MapSet(promises, m.request_seq,
                                  Settlement(m, pending[m.request_seq]))
       ELSE UNCHANGED <<pending, promises>>
  /\ UNCHANGED <<seq, events, started, eventCountAtLastContinue, process,
                 socketOpen, sent, handlerVars, serverVars, history,
                 readerVars, lastRead,
                 outputVars, overlapCall>>

\* DapSession.onMessage of the second session, called by its own transport
peerOnMessage(m) ==
  /\ peer' = peerReceived(m)
  /\ UNCHANGED <<sessionVars, handlerVars, serverVars, history, readerVars,
                 lastRead,
                 outputVars, overlapCall>>

(***************************************************************************)
(* Wire codec: DapWriter and DapReader.  A byte is a one-character string, *)
(* the two bytes of a two-byte UTF-8 character are "C3" and "A9", and the  *)
(* header name "Content-Length:" is one symbol.  A message is the text of  *)
(* its JSON object between the braces.                                     *)
(***************************************************************************)
CR == "\r"
LF == "\n"
HeaderEnd == <<CR, LF, CR, LF>>
ContentLength == "Content-Length:"
Digit == {"0", "1", "2", "3", "4", "5", "6", "7", "8", "9"}
\* what the regular expression's \s matches
Space == {" ", CR, LF}
\* a character of two UTF-8 bytes
EAcute == "U+00E9"
\* U+FFFD, which TextDecoder puts for bytes that are not UTF-8
Replacement == "FFFD"

RECURSIVE Concat(_)
Concat(xss) == IF xss = <<>> THEN <<>> ELSE Head(xss) \o Concat(Tail(xss))

\* `${n}`: the decimal digits of n
RECURSIVE DigitsOf(_)
DigitsOf(n) ==
  LET d == <<"0", "1", "2", "3", "4", "5", "6", "7", "8", "9">>[(n % 10) + 1] IN
  IF n < 10 THEN <<d>> ELSE Append(DigitsOf(n \div 10), d)

\* parseInt(digits, 10)
RECURSIVE ParseInt(_)
ParseInt(ds) ==
  IF ds = <<>> THEN 0
  ELSE 10 * ParseInt(SubSeq(ds, 1, Len(ds) - 1))
         + (CHOOSE v \in 0..9 : DigitsOf(v) = <<ds[Len(ds)]>>)

\* TextEncoder.encode: the UTF-8 bytes of a text
Utf8(ch) == IF ch = EAcute THEN <<"C3", "A9">> ELSE <<ch>>
TextEncode(text) == Concat([i \in 1..Len(text) |-> Utf8(text[i])])

\* TextDecoder.decode: the text of UTF-8 bytes
RECURSIVE TextDecode(_)
TextDecode(bytes) ==
  IF bytes = <<>> THEN <<>>
  ELSE IF Len(bytes) >= 2 /\ bytes[1] = "C3" /\ bytes[2] = "A9"
    THEN <<EAcute>> \o TextDecode(SubSeq(bytes, 3, Len(bytes)))
  ELSE IF bytes[1] \in {"C3", "A9"}
    THEN <<Replacement>> \o TextDecode(Tail(bytes))
  ELSE <<bytes[1]>> \o TextDecode(Tail(bytes))

\* JSON.stringify(msg)
JsonStringify(m) == <<"{">> \o m \o <<"}">>

\* JSON.parse accepts the text: an object, or a number
JsonValid(text) ==
  \/ /\ Len(text) >= 2
     /\ text[1] = "{"
     /\ text[Len(text)] = "}"
     /\ \A i \in 2..(Len(text) - 1) : text[i] \in {"a", EAcute, Replacement}
  \/ /\ Len(text) >= 1
     /\ \A i \in 1..Len(text) : text[i] \in Digit

\* JSON.parse(text) of a text it accepts
JsonParse(text) ==
  IF text[1] = "{" THEN SubSeq(text, 2, Len(text) - 1) ELSE text

\* a header counting the characters of the JSON text
writeCharacters(m) ==
  <<ContentLength, " ">> \o DigitsOf(Len(JsonStringify(m))) \o HeaderEnd
    \o TextEncode(JsonStringify(m))

\* DapWriter.write(msg)
write(m) ==
  LET body == TextEncode(JsonStringify(m)) IN
  <<ContentLength, " ">> \o DigitsOf(Len(body)) \o HeaderEnd \o body

\* buffer.indexOf("\r\n\r\n"): the offset of the first header end, -1 for none
IndexOfHeaderEnd(buf) ==
  LET at == {i \in 0..(Len(buf) - 4) : SubSeq(buf, i + 1, i + 4) = HeaderEnd} IN
  IF at = {} THEN -1 ELSE CHOOSE i \in at : \A j \in at : i <= j

\* the digits /Content-Length:\s*(\d+)/ captures at position i of the header
RECURSIVE DigitsAt(_, _)
DigitsAt(header, i) ==
  IF i <= Len(header) /\ header[i] \in Digit
    THEN <<header[i]>> \o DigitsAt(header, i + 1) ELSE <<>>

RECURSIVE SkipSpace(_, _)
SkipSpace(header, i) ==
  IF i <= Len(header) /\ header[i] \in Space THEN SkipSpace(header, i + 1) ELSE i

\* /Content-Length:\s*(\d+)/i.exec(header): the captured digits of the first
\* match, <<>> when there is none
HeaderMatch(header) ==
  LET hits == {i \in 1..Len(header) :
                 /\ header[i] = ContentLength
                 /\ DigitsAt(header, SkipSpace(header, i + 1)) # <<>>} IN
  IF hits = {} THEN <<>>
  ELSE LET i == CHOOSE h \in hits : \A j \in hits : h <= j IN
       DigitsAt(header, SkipSpace(header, i + 1))

\* what the reader emits
MessageOut(m) == [kind |-> "message", value |-> m]
ErrorOut == [kind |-> "error", value |-> <<>>]

\* a loop that throws the whole buffer away at a header without Content-Length
RECURSIVE readerProcessDropsAll(_, _)
readerProcessDropsAll(buf, out) ==
  LET headerEnd == IndexOfHeaderEnd(buf) IN
  IF headerEnd = -1 THEN [buffer |-> buf, emitted |-> out, threw |-> FALSE]
  ELSE
    LET match == HeaderMatch(SubSeq(buf, 1, headerEnd))
        total == headerEnd + 4 + ParseInt(match)
        text == TextDecode(SubSeq(buf, headerEnd + 5, total))
        rest == SubSeq(buf, total + 1, Len(buf))
    IN  IF match = <<>>
          THEN [buffer |-> <<>>, emitted |-> out, threw |-> FALSE]
        ELSE IF Len(buf) < total
          THEN [buffer |-> buf, emitted |-> out, threw |-> FALSE]
        ELSE IF JsonValid(text)
          THEN readerProcessDropsAll(rest,
                                     Append(out, MessageOut(JsonParse(text))))
        ELSE [buffer |-> rest, emitted |-> Append(out, ErrorOut),
              threw |-> TRUE]

\* DapReader.process on the buffer `buf`, `out` having been emitted: the loop
\* over complete frames.  A decode error is emitted as 'error'; the transport
\* passes it on as its own 'error', which has no listener, so emit throws
\* and the loop is left with the frame consumed
RECURSIVE readerProcess(_, _)
readerProcess(buf, out) ==
  LET headerEnd == IndexOfHeaderEnd(buf) IN
  IF headerEnd = -1 THEN [buffer |-> buf, emitted |-> out, threw |-> FALSE]
  ELSE
    LET match == HeaderMatch(SubSeq(buf, 1, headerEnd))
        total == headerEnd + 4 + ParseInt(match)
        text == TextDecode(SubSeq(buf, headerEnd + 5, total))
        rest == SubSeq(buf, total + 1, Len(buf))
    IN  IF match = <<>>
          THEN readerProcess(SubSeq(buf, headerEnd + 5, Len(buf)), out)
        ELSE IF Len(buf) < total
          THEN [buffer |-> buf, emitted |-> out, threw |-> FALSE]
        ELSE IF JsonValid(text)
          THEN readerProcess(rest, Append(out, MessageOut(JsonParse(text))))
        ELSE [buffer |-> rest, emitted |-> Append(out, ErrorOut),
              threw |-> TRUE]

\* a push that decodes the chunk by itself, without what was buffered
pushAlone(chunk) ==
  /\ serverUp
  /\ LET r == readerProcess(chunk, emitted) IN
       /\ buffer' = buffer \o r.buffer
       /\ emitted' = r.emitted
       /\ serverUp' = ~r.threw
  /\ stream' = [bytes |-> stream.bytes \o chunk, chunks |-> stream.chunks + 1]
  /\ UNCHANGED <<sessionVars, handlerVars, run, terminateCall, child, conn,
                 registry, history, peer, lastRead,
                 outputVars, overlapCall>>

\* the socket's 'data' handler: DapReader.push(chunk).  The error thrown out
\* of it is an uncaught exception, which ends the server process
push(chunk) ==
  /\ serverUp
  /\ LET r == readerProcess(buffer \o chunk, emitted) IN
       /\ buffer' = r.buffer
       /\ emitted' = r.emitted
       /\ serverUp' = ~r.threw
  /\ stream' = [bytes |-> stream.bytes \o chunk, chunks |-> stream.chunks + 1]
  /\ UNCHANGED <<sessionVars, handlerVars, run, terminateCall, child, conn,
                 registry, history, peer, lastRead,
                 outputVars, overlapCall>>

(***************************************************************************)
(* The session engine under a generic caller.                              *)
(***************************************************************************)
Next ==
  \/ \E c \in {"threads", "continue"} : seq <= MaxSeq /\ Request(c)
  \/ \E m \in ResponseMessages(seq) : onMessage(m)
  \/ \E m \in EventMessages : Len(events) < MaxEvents /\ onMessage(m)
  \/ close

Spec == Init /\ [][Next]_vars

(***************************************************************************)
(* The command handlers over a session built by the bootstrap: status and  *)
(* wait-until-stopped, with the adapter's events and answers arriving and  *)
(* the continue marker being recorded in between.                          *)
(***************************************************************************)
\* the adapter answers a request that is outstanding
Answers ==
  {m \in ResponseMessages(seq - 1) : m.request_seq \in DOMAIN pending}

NextStatus ==
  \/ \E m \in EventMessages : Len(events) < MaxLog /\ onMessage(m)
  \/ \E m \in Answers : onMessage(m)
  \/ (eventCountAtLastContinue # Len(events) /\ markContinue)
  \/ (seq <= MaxCallSeq /\ debuggerStatus)
  \/ statusThreads
  \/ statusStackTrace
  \/ statusScopes
  \/ statusVariables
  \/ statusReturn
  \/ \E t \in 0..MaxTimeout : debuggerWaitUntilBreakpoint(t)
  \/ waitPoll
  \/ waitReturn

SpecStatus == InitSession /\ [][NextStatus]_vars

(***************************************************************************)
(* The command handlers over a session built by the bootstrap: continue    *)
(* and status.                                                             *)
(***************************************************************************)
NextResume ==
  \/ \E m \in EventMessages : Len(events) < MaxResumeLog /\ onMessage(m)
  \/ \E m \in Answers : onMessage(m)
  \/ (seq <= MaxResumeSeq /\ debuggerContinue)
  \/ continueResumes
  \/ (seq <= MaxResumeSeq /\ debuggerStatus)
  \/ statusThreads
  \/ statusStackTrace
  \/ statusScopes
  \/ statusVariables
  \/ statusReturn

SpecResume == InitSession /\ [][NextResume]_vars

(***************************************************************************)
(* Wait-until-stopped over a session whose log grows while the call polls; *)
(* the timers of Node's event loop fire, and a result is handed over.      *)
(***************************************************************************)
NextWait ==
  \/ \E m \in EventMessages : Len(events) < MaxWaitLog /\ onMessage(m)
  \/ \E t \in 0..MaxTimeout : debuggerWaitUntilBreakpoint(t)
  \/ waitPoll
  \/ waitReturn

SpecWait ==
  InitSession /\ [][NextWait]_vars /\ WF_vars(waitPoll) /\ WF_vars(waitReturn)

(***************************************************************************)
(* The bootstrap of one session, with the adapter connecting, answering,   *)
(* failing and exiting.                                                    *)
(***************************************************************************)
\* the server before any debuggerRun call
InitRun ==
  /\ seq = 1
  /\ pending = EmptyMap
  /\ events = <<>>
  /\ started = FALSE
  /\ eventCountAtLastContinue = Null
  /\ process = FALSE
  /\ socketOpen = TRUE
  /\ sent = <<>>
  /\ promises = EmptyMap
  /\ statusCall = IdleCall
  /\ status = NoStatus
  /\ waitCall = IdleCall
  /\ waitResult = NoResult
  /\ continueCall = IdleCall
  /\ run = NoRun
  /\ terminateCall = IdleCall
  /\ child = "none"
  /\ conn = "none"
  /\ registry = NoSessions
  /\ serverUp = TRUE
  /\ history = <<>>
  /\ stream = NoStream
  /\ buffer = <<>>
  /\ emitted = <<>>
  /\ peer = NewSession
  /\ lastRead = NoRead
  /\ stdio = NoStdio
  /\ tempLogs = <<>>
  /\ processLogs = <<>>
  /\ overlapCall = IdleCall

NextRun ==
  \/ \E t \in Flavors, n \in 0..1, found \in BOOLEAN : debuggerRun(t, n, found)
  \/ runConnect
  \/ socketConnects
  \/ socketFails
  \/ childExits
  \/ socketEnds
  \/ \E m \in Answers : serverUp /\ onMessage(m)
  \/ runInitialize
  \/ runAttach
  \/ \E dies \in BOOLEAN : launchSettles(dies)
  \/ \E ok \in BOOLEAN : runRustc(ok)
  \/ runEvaluate1
  \/ runEvaluate2

SpecRun == InitRun /\ [][NextRun]_vars

(***************************************************************************)
(* The bootstrap of a session and the debuggerContinue calls made on it,   *)
(* one of which may be made while another awaits its response.             *)
(***************************************************************************)
NextStarted ==
  \/ \E t \in {"debugpy", "lldb"} : debuggerRun(t, 1, TRUE)
  \/ runConnect
  \/ socketConnects
  \/ \E m \in Answers : serverUp /\ onMessage(m)
  \/ runInitialize
  \/ runAttach
  \/ \E dies \in BOOLEAN : launchSettles(dies)
  \/ (IsRegistered /\ seq <= MaxStartSeq /\ debuggerContinue)
  \/ continueResumes
  \/ (seq <= MaxStartSeq /\ debuggerContinueOverlapping)
  \/ overlapResumes

SpecStarted == InitRun /\ [][NextStarted]_vars

(***************************************************************************)
(* A session that has run for long: its log holds as many events as the    *)
(* handlers' readEvents(0, 10000) returns, and the adapter sends more.     *)
(***************************************************************************)
\* the log of a session whose program has printed much (one output event
\* for each piece of output), was resumed and has stopped on thread 2
LongLog ==
  [i \in 1..ReadLimit |->
     IF i = ReadLimit THEN EventMsg("stopped", "breakpoint", 2, 0)
     ELSE IF i = ReadLimit - 1 THEN EventMsg("continued", NoText, NoThread, 0)
     ELSE EventMsg("output", NoText, NoThread, 0)]

InitLong ==
  /\ seq = 1
  /\ pending = EmptyMap
  /\ events = LongLog
  /\ started = TRUE
  /\ eventCountAtLastContinue = Null
  /\ process = TRUE
  /\ socketOpen = TRUE
  /\ sent = <<>>
  /\ promises = EmptyMap
  /\ statusCall = IdleCall
  /\ status = NoStatus
  /\ waitCall = IdleCall
  /\ waitResult = NoResult
  /\ continueCall = IdleCall
  /\ run = NoRun
  /\ terminateCall = IdleCall
  /\ child = "running"
  /\ conn = "connected"
  /\ registry = Registered(NoSessions, SessionId)
  /\ serverUp = TRUE
  /\ history = Built(registry.ids)
  /\ stream = NoStream
  /\ buffer = <<>>
  /\ emitted = <<>>
  /\ peer = NewSession
  /\ lastRead = NoRead
  /\ stdio = [NoStdio EXCEPT !.listener = "processLogs"]
  /\ tempLogs = <<>>
  /\ processLogs = <<>>
  /\ overlapCall = IdleCall

NextLong ==
  \/ \E m \in EventMessages :
       Len(events) < ReadLimit + MaxBeyond /\ onMessage(m)
  \/ \E m \in Answers : onMessage(m)
  \/ (seq <= MaxLongSeq /\ debuggerStatus)
  \/ statusThreads
  \/ statusStackTrace
  \/ statusScopes
  \/ statusVariables
  \/ statusReturn
  \/ (seq <= MaxLongSeq /\ debuggerContinue)
  \/ continueResumes

SpecLong == InitLong /\ [][NextLong]_vars

(***************************************************************************)
(* Termination of a session the bootstrap has built, with or without       *)
(* another session registered before or after it.                          *)
(***************************************************************************)
\* the registries the session may be in
InitTerminate ==
  /\ InitState
  /\ process = TRUE
  /\ registry \in
       { Registered(NoSessions, SessionId),
         Registered(Registered(NoSessions, OtherId), SessionId),
         Registered(Registered(NoSessions, SessionId), OtherId) }
  /\ history = Built(registry.ids)

NextTerminate ==
  \/ \E m \in Answers : onMessage(m)
  \/ (IsRegistered /\ seq <= MaxTermSeq /\ debuggerContinue)
  \/ continueResumes
  \/ \E id \in {Absent, SessionId, OtherId} : debuggerTerminate(id)
  \/ terminateResumes
  \/ terminateReturn

SpecTerminate == InitTerminate /\ [][NextTerminate]_vars

(***************************************************************************)
(* The registry under any sequence of add and delete calls, with commands  *)
(* resolving their session in between.                                     *)
(***************************************************************************)
\* sessions.add(sess) for a session of id `id`
registryAdd(id) ==
  /\ sessionsAdd(id)
  /\ UNCHANGED <<sessionVars, handlerVars, run, terminateCall, child, conn,
                 serverUp, asideVars>>

\* sessions.delete(id)
registryDelete(id) ==
  /\ sessionsDelete(id)
  /\ UNCHANGED <<sessionVars, handlerVars, run, terminateCall, child, conn,
                 serverUp, asideVars>>

\* the sessionId arguments of a command: left out, empty, the id of a session
\* that may be registered, an id no session has
SessionIdArgs == SessionIds \cup {Absent, NoText, "s9"}

InitRegistry ==
  /\ InitState
  /\ process = FALSE
  /\ registry = NoSessions
  /\ history = <<>>

NextRegistry ==
  \/ \E id \in SessionIds : Len(history) < MaxOps /\ registryAdd(id)
  \/ \E id \in SessionIds : Len(history) < MaxOps /\ registryDelete(id)
  \/ \E id \in SessionIdArgs : Len(history) < MaxOps /\ debuggerTerminate(id)
  \/ terminateReturn

SpecRegistry == InitRegistry /\ [][NextRegistry]_vars

(***************************************************************************)
(* The event log read by its callers while events arrive and a request is  *)
(* issued and answered.                                                    *)
(***************************************************************************)
\* the limits of the calls: none, one entry, the handlers' limit
ReadLimits == {0, 1, ReadLimit}

\* the events the adapter reports in this specification
ReadEventMessages ==
  {m \in EventMessages : m.event = "continued" \/ m.reason = "breakpoint"}

NextEvents ==
  \/ \E m \in ReadEventMessages : Len(events) < MaxReadLog /\ onMessage(m)
  \/ \E since \in 0..MaxSince, limit \in ReadLimits,
        reverses \in BOOLEAN : readEventsCall(since, limit, reverses)
  \/ (seq <= MaxReadSeq /\ Request("threads"))
  \/ \E m \in Answers : onMessage(m)

SpecEvents == InitSession /\ [][NextEvents]_vars

(***************************************************************************)
(* The reader fed with what an adapter may write: frames of messages, a    *)
(* frame whose body is not JSON, bytes with no Content-Length before a     *)
(* header end; cut into chunks at any byte.                                *)
(***************************************************************************)
\* the messages written: an empty one, one of a two-byte character, and one
\* of one-byte and two-byte characters whose body takes a two-digit
\* Content-Length
WireMessages ==
  { <<>>, <<EAcute>>, <<EAcute, "a", EAcute, EAcute, EAcute>> }

\* what the adapter writes in one piece
Pieces ==
  {write(m) : m \in WireMessages}
    \cup { <<ContentLength, " ", "1">> \o HeaderEnd \o <<"}">>,
           <<"a">> \o HeaderEnd }

\* the byte streams of up to n pieces
RECURSIVE StreamsOf(_)
StreamsOf(n) ==
  IF n = 0 THEN {<<>>}
  ELSE LET shorter == StreamsOf(n - 1) IN
       shorter \cup {s \o p : s \in shorter, p \in Pieces}

Streams == StreamsOf(MaxFrames)

\* the chunks that may arrive next: any bytes that continue a stream
NextChunks ==
  UNION { {SubSeq(s, Len(stream.bytes) + 1, j) :
             j \in (Len(stream.bytes) + 1)..Len(s)} :
          s \in {t \in Streams :
                   /\ Len(t) > Len(stream.bytes)
                   /\ SubSeq(t, 1, Len(stream.bytes)) = stream.bytes} }

NextWire == \E chunk \in NextChunks : push(chunk)

SpecWire == InitSession /\ [][NextWire]_vars

\* text with no Content-Length in it, up to and with a header terminator
Headerless == <<"a">> \o HeaderEnd

\* the streams of up to n pieces that are well-formed frames or such text
RECURSIVE HeaderlessStreamsOf(_)
HeaderlessStreamsOf(n) ==
  IF n = 0 THEN {<<>>}
  ELSE LET shorter == HeaderlessStreamsOf(n - 1) IN
       shorter \cup {s \o p : s \in shorter,
                              p \in {write(<<>>), write(<<EAcute>>), Headerless}}

HeaderlessChunks ==
  UNION { {SubSeq(s, Len(stream.bytes) + 1, j) :
             j \in (Len(stream.bytes) + 1)..Len(s)} :
          s \in {t \in HeaderlessStreamsOf(MaxFrames) :
                   /\ Len(t) > Len(stream.bytes)
                   /\ SubSeq(t, 1, Len(stream.bytes)) = stream.bytes} }

NextHeaderless == \E chunk \in HeaderlessChunks : push(chunk)

SpecHeaderless == InitSession /\ [][NextHeaderless]_vars

(***************************************************************************)
(* The output of the adapter process: what the child writes to stdout and  *)
(* stderr waits in the pipe of its stream until the stream has a 'data'    *)
(* listener, and is then emitted chunk by chunk.                           *)
(***************************************************************************)
\* the chunks the child may write: ASCII text, a two-byte character, and
\* the first byte of one whose second byte comes in the next chunk
OutputChunks == { <<"a">>, <<"C3", "A9">>, <<"C3">> }

\* the child writes a chunk to one of its streams
childWrites(t, bytes) ==
  /\ child = "running"
  /\ Len(stdio.written) < MaxOutput
  /\ stdio' = [stdio EXCEPT
                 !.pipe[t] = Append(@, bytes),
                 !.written = Append(@, [type |-> t, bytes |-> bytes])]
  /\ UNCHANGED <<sessionVars, handlerVars, serverVars, history, readerVars,
                 peer, lastRead, tempLogs, processLogs,
                 overlapCall>>

\* the log entry the 'data' listeners push: { type, timestamp,
\* data: data.toString() } (the timestamp is left out)
LogEntry(t, bytes) == [type |-> t, data |-> TextDecode(bytes)]

\* a stream with a listener emits 'data' with the next chunk of its pipe:
\* the listener pushes the entry to tempLogs or to the session's log
stdioData(t) ==
  /\ serverUp
  /\ stdio.listener # "none"
  /\ stdio.pipe[t] # <<>>
  /\ LET bytes == Head(stdio.pipe[t]) IN
       /\ stdio' = [stdio EXCEPT
                      !.pipe[t] = Tail(@),
                      !.data = Append(@, [type |-> t, bytes |-> bytes])]
       /\ IF stdio.listener = "tempLogs"
            THEN /\ tempLogs' = Append(tempLogs, LogEntry(t, bytes))
                 /\ UNCHANGED processLogs
            ELSE /\ processLogs' = Append(processLogs, LogEntry(t, bytes))
                 /\ UNCHANGED tempLogs
  /\ UNCHANGED <<sessionVars, handlerVars, serverVars, history, readerVars,
                 peer, lastRead,
                 overlapCall>>

NextOutput ==
  \/ \E t \in Flavors, n \in 0..1, found \in BOOLEAN : debuggerRun(t, n, found)
  \/ runConnect
  \/ \E t \in StdioTypes, bytes \in OutputChunks : childWrites(t, bytes)
  \/ \E t \in StdioTypes : stdioData(t)
  \/ childExits

SpecOutput == InitRun /\ [][NextOutput]_vars

(***************************************************************************)
(* Two live sessions, each issuing requests and receiving the messages of  *)
(* its own adapter, in any interleaving.                                   *)
(***************************************************************************)
\* the answers the second session's adapter may give
PeerAnswers ==
  {m \in ResponseMessages(peer.seq - 1) : m.request_seq \in DOMAIN peer.pending}

InitSessions ==
  /\ InitState
  /\ process = TRUE
  /\ registry = Registered(Registered(NoSessions, SessionId), OtherId)
  /\ history = Built(registry.ids)

NextSessions ==
  \/ (seq <= MaxPeerSeq /\ Request("threads"))
  \/ (peer.seq <= MaxPeerSeq /\ peerRequest("threads"))
  \/ \E m \in Answers : onMessage(m)
  \/ \E m \in PeerAnswers : peerOnMessage(m)
  \/ \E m \in ReadEventMessages : Len(events) < MaxPeerLog /\ onMessage(m)
  \/ \E m \in ReadEventMessages :
       Len(peer.events) < MaxPeerLog /\ peerOnMessage(m)

SpecSessions == InitSessions /\ [][NextSessions]_vars

(***************************************************************************)
(* A session that ends by failure: the adapter exits, the socket closes or *)
(* errors, with status queries and resumes before and after.  The handler  *)
(* continuations run once their promise is settled and a live adapter      *)
(* answers what it was asked.                                              *)
(***************************************************************************)
\* the transport has closed or failed
SessionEnded == conn \in {"ended", "reset"}

\* a live adapter answers or reports; what it wrote before it exited is not
\* followed
adapterAnswers == \E m \in Answers : serverUp /\ child = "running" /\ onMessage(m)

NextFailure ==
  \/ \E m \in EventMessages :
       Len(events) < MaxFailLog /\ serverUp /\ child = "running" /\ onMessage(m)
  \/ adapterAnswers
  \/ childExits
  \/ socketEnds
  \/ socketFails
  \/ (serverUp /\ seq <= MaxFailSeq /\ debuggerContinue)
  \/ (serverUp /\ continueResumes)
  \/ (serverUp /\ seq <= MaxFailSeq /\ debuggerStatus)
  \/ (serverUp /\ statusThreads)
  \/ (serverUp /\ statusStackTrace)
  \/ (serverUp /\ statusScopes)
  \/ (serverUp /\ statusVariables)
  \/ (serverUp /\ statusReturn)

SpecFailure ==
  /\ InitSession
  /\ [][NextFailure]_vars
  /\ WF_vars(adapterAnswers)
  /\ WF_vars(serverUp /\ statusThreads)
  /\ WF_vars(serverUp /\ statusStackTrace)
  /\ WF_vars(serverUp /\ statusScopes)
  /\ WF_vars(serverUp /\ statusVariables)

(***************************************************************************)
(* Termination with an adapter that answers while it lives and may exit at *)
(* any moment; the handlers' own steps are taken whenever they can be.     *)
(***************************************************************************)
NextHangup ==
  \/ adapterAnswers
  \/ childExits
  \/ socketEnds
  \/ (IsRegistered /\ seq <= MaxTermSeq /\ debuggerContinue)
  \/ continueResumes
  \/ \E id \in {Absent, SessionId} : debuggerTerminate(id)
  \/ terminateResumes
  \/ terminateReturn

SpecHangup ==
  /\ InitTerminate
  /\ [][NextHangup]_vars
  /\ WF_vars(adapterAnswers)
  /\ WF_vars(continueResumes)
  /\ WF_vars(terminateResumes)
  /\ WF_vars(terminateReturn)

(***************************************************************************)
(* Properties of the session engine.                                       *)
(***************************************************************************)
\* every response a transport may deliver in the current state: to a seq
\* that was issued, or to the next one, which was not
AnyResponse == ResponseMessages(seq)

\* the responses that name request k
ResponsesTo(k) == {m \in AnyResponse : m.request_seq = k}

\* C1: a step that handles a response changes no promise and no pending
\* entry but those of the request whose seq is the response's request_seq;
\* if that request is outstanding, the step settles its promise and removes
\* its pending entry, whatever the order the responses arrive in.
C1_ResponseRoutedBySeq ==
  [][/\ promises' # promises =>
          \A m \in AnyResponse :
            onMessage(m) =>
              \A k \in DOMAIN promises \ {m.request_seq} :
                /\ promises'[k] = promises[k]
                /\ k \in DOMAIN pending <=> k \in DOMAIN pending'
     /\ \A k \in DOMAIN pending :
          \A m \in ResponsesTo(k) :
            onMessage(m) =>
              /\ promises[k].st = "pending"
              /\ promises'[k].st # "pending"
              /\ DOMAIN pending' = DOMAIN pending \ {k}]_vars

\* two requests were outstanding together and the later one was answered first
C1_Witness ==
  /\ {1, 2} \subseteq DOMAIN promises
  /\ promises[1].st = "pending"
  /\ promises[2].st = "resolved"

\* C2: the matching response with success=true resolves the promise with the
\* response body; with success=false it rejects it, with the adapter's
\* message when one is given and else with "DAP error for <command>".
C2_SettledBySuccess ==
  [][\A k \in DOMAIN pending :
       \A m \in ResponsesTo(k) :
         onMessage(m) =>
           LET p == promises'[k] IN
           IF m.success
             THEN p.st = "resolved" /\ p.body = m.body
             ELSE /\ p.st = "rejected"
                  /\ p.error = IF m.message # NoText
                                 THEN m.message
                                 ELSE "DAP error for " \o sent[k].command]_vars

\* one request rejected with the adapter's message, one with the fallback
\* that names its command
C2_Witness ==
  /\ {1, 2} \subseteq DOMAIN promises
  /\ promises[1] = Rejected("Server disconnected")
  /\ promises[2] = Rejected("DAP error for continue")

\* C3: handling a response whose request_seq is not outstanding changes
\* nothing: no step that changes a promise, pending, the event log or seq is
\* the handling of such a response.
C3_UnmatchedDropped ==
  [][~ UNCHANGED <<promises, pending, events, seq>> =>
       \A m \in AnyResponse :
         m.request_seq \notin DOMAIN pending => ~onMessage(m)]_vars

\* request 1 has been answered (a second answer to it is unmatched) while
\* request 2 is still outstanding
C3_Witness ==
  /\ {1, 2} \subseteq DOMAIN promises
  /\ promises[1].st = "resolved"
  /\ promises[2].st = "pending"
  /\ DOMAIN pending = {2}

\* C4: the n-th message handed to the transport is a request with seq n; a
\* step that sends anything sends exactly one request, carrying the current
\* seq, and raises seq by one; no other step (a response, a rejection, an
\* event, close) changes seq or sends.
C4_SeqIssuedOnce ==
  [][/\ \A n \in 1..Len(sent) : sent[n].seq = n /\ sent[n].type = "request"
     /\ seq = Len(sent) + 1
     /\ \/ UNCHANGED <<seq, sent>>
        \/ /\ seq' = seq + 1
           /\ Len(sent') = Len(sent) + 1
           /\ SubSeq(sent', 1, Len(sent)) = sent
           /\ sent'[Len(sent')].seq = seq]_vars

\* requests issued after a rejection, with an event logged and the session
\* closed
C4_Witness ==
  /\ Len(sent) = MaxSeq
  /\ promises[1].st = "rejected"
  /\ promises[MaxSeq].st = "pending"
  /\ Len(events) > 0
  /\ ~socketOpen

(***************************************************************************)
(* Properties of the event log and of the inference over it.                *)
(***************************************************************************)
\* the log has a terminated event
LogTerminated == \E i \in 1..Len(events) : events[i].event = "terminated"

\* the ordinal of the last event of a kind in the log (-1: none)
LastOrdinal(kind) ==
  LET found == {i \in 0..(Len(events) - 1) : events[i + 1].event = kind} IN
  IF found = {} THEN -1
  ELSE CHOOSE i \in found : \A j \in found : j <= i

\* C5: the log changes only by the handling of an inbound event, which
\* appends that event after the entries already there; a step that handles
\* a response (it takes an entry out of pending) leaves the log as it was.
C5_LogAppendOnly ==
  [][/\ events' # events =>
          \E m \in EventMessages : onMessage(m) /\ events' = Append(events, m)
     /\ (seq' = seq /\ pending' # pending) => events' = events]_vars

\* equal events logged one after the other, after a response was handled
C5_Witness ==
  /\ Len(events) = 3
  /\ events[1].event = "continued"
  /\ events[2] = events[1]
  /\ events[3].event = "stopped"
  /\ statusCall.pc = "done"
  /\ status.threads # <<>>

StoppedCase(s) ==
  /\ ~LogTerminated
  /\ s = LastOrdinal("stopped")
  /\ s # -1
  /\ LastOrdinal("continued") < s
  /\ eventCountAtLastContinue = Null \/ eventCountAtLastContinue <= s

C8_MarkerMeansRunning ==
  [][(/\ debuggerStatus
      /\ ~LogTerminated
      /\ eventCountAtLastContinue # Null
      /\ eventCountAtLastContinue > LastOrdinal("stopped"))
       => status'.state = "running"]_vars

\* C9: a status query answers not_started only if the started flag is false
\* and no marker has been recorded; otherwise, with no terminated event and
\* no current stop, it answers running.
C9_NotStartedOnlyIfNeverStarted ==
  [][(debuggerStatus /\ ~LogTerminated) =>
       /\ status'.state = "not_started" =>
            ~started /\ eventCountAtLastContinue = Null
       /\ ((started \/ eventCountAtLastContinue # Null)
           /\ status'.state # "stopped") => status'.state = "running"]_vars

\* C10: a wait call answers at once, "already stopped", exactly when the
\* status inference over the same log and marker gives stopped or
\* terminated.
C10_WaitAgreesWithStatus ==
  [][\A t \in 0..MaxTimeout :
       debuggerWaitUntilBreakpoint(t) =>
         (waitResult'.alreadyStopped <=>
            inferState(readEvents(0, ReadLimit), eventCountAtLastContinue)
              \in {"stopped", "terminated"})]_vars

\* C11: a wait call that is polling eventually has its result; the result
\* is either a stop or terminated outcome (success true) or the timeout
\* outcome (success false, reason "timeout"), and the timeout outcome is
\* reported only once the elapsed time has reached the caller's timeout.
C11_WaitReturns ==
  /\ (waitCall.pc = "polling") ~> (waitCall.pc = "done")
  /\ [][waitCall'.pc = "done" /\ waitCall.pc # "done" =>
          LET r == waitResult' IN
          /\ r.success <=> r.reason # "timeout"
          /\ r.reason = "timeout" =>
               /\ waitCall.pc = "polling" => r.elapsed >= waitCall.timeout
               /\ \A t \in 0..MaxTimeout :
                    debuggerWaitUntilBreakpoint(t) => r.elapsed >= t]_vars

\* a call that polled twice while events that are no stop were logged, and
\* then timed out
C11_Witness ==
  /\ waitCall.pc = "done"
  /\ waitResult.reason = "timeout"
  /\ waitResult.elapsed = 2
  /\ Len(events) > 0

\* C12: a poll made after a stopped event was logged during the call (at
\* an ordinal from startLen on, so before the moment of this poll, which is
\* not past the timeout) returns a stop outcome.
C12_StopNeverMissed ==
  [][(/\ waitCall.pc = "polling"
      /\ waitPoll
      /\ \E i \in (waitCall.startLen + 1)..Len(events) :
           events[i].event = "stopped")
       => waitCall'.pc = "done" /\ waitResult'.success]_vars

(***************************************************************************)
(* Properties of the bootstrap.                                            *)
(***************************************************************************)
\* a start request (attach or launch) has been sent
StartSent == \E i \in 1..Len(sent) : sent[i].command \in {"attach", "launch"}

\* the bootstrap call has ended in failure: it threw, or the server died
\* under it
RunFailed ==
  \/ run.pc = "failed"
  \/ ~serverUp /\ run.pc \notin {"idle", "done"}

\* C13: in every state in which the bootstrap call has failed, the adapter
\* process it spawned is not running.
C13_NoOrphanAfterFailure == RunFailed => child # "running"

\* C14: when the connection attempt made has failed, either another attempt
\* is still to come (fewer than maxRetries made, no session built), or the
\* call has failed after maxRetries attempts with the child killed, no
\* session registered and an error naming the retry count.
C14_RetriesExhausted ==
  conn = "refused" =>
    \/ /\ run.pc = "delay"
       /\ run.attempts < maxRetries
       /\ ~IsRegistered
    \/ /\ run.pc = "failed"
       /\ run.attempts = maxRetries
       /\ child # "running"
       /\ ~IsRegistered
       /\ ~process
       /\ run.error = "Failed to connect to debugpy after 5 attempts"

\* C15: a session is built (initialize sent) and registered only on a
\* connection that has been established, and a refused connection leads to
\* another attempt.
C15_SessionOnlyOnceConnected ==
  /\ (IsRegistered \/ Len(sent) > 0) => conn \in {"connected", "ended", "reset"}
  /\ conn = "refused" => run.pc = "delay"

\* C16: a rejected initialize closes the session (process killed, transport
\* closed) and fails the call with that error, and no start request is sent
\* on a session whose bootstrap failed; a failure of a later stage does not
\* keep the call from returning the session id: it neither fails the call
\* nor ends the server under it while the connection stands.
C16_InitializeFatalLaterNot ==
  [][/\ (run.pc = "initialize" /\ run'.pc # "initialize" /\ serverUp'
         /\ promises[run.await].st = "rejected") =>
          /\ run'.pc = "failed"
          /\ run'.error = "Failed to initialize DAP session: "
                            \o promises[run.await].error
          /\ ~process' /\ child' # "running" /\ ~socketOpen'
     /\ run'.pc = "failed" => ~StartSent'
     /\ run.pc \in {"rustc", "evaluate1", "evaluate2", "done"} =>
          run'.pc # "failed"
     /\ (run.pc \in {"rustc", "evaluate1", "evaluate2"}
         /\ conn' = "connected" /\ serverUp) => serverUp']_vars

\* C17: the call of a launch flavor returns only once the launch request
\* has been answered; the call of the attach flavor is not failed by a
\* rejected attach.
C17_LaunchAwaited ==
  /\ (run.pc = "done" /\ startRequest(run.type) = "launch") =>
       ~(run.start \in DOMAIN promises /\ promises[run.start].st = "pending")
  /\ (startRequest(run.type) = "attach" /\ run.start # 0) => run.pc = "done"

\* C18: when debuggerTerminate succeeds on the session, its adapter process is
\* no longer running, its transport is closed and its registry entry is gone;
\* once gone the entry never comes back, and a later command resolves the
\* session neither by its id nor without an id; with no other session
\* registered a command without an id fails with "No active debug session"
C18_TerminateRemoves ==
  [][ /\ ( /\ terminateCall.pc # "done"
           /\ terminateCall'.pc = "done"
           /\ terminateCall'.target = SessionId )
         => /\ child' # "running"
            /\ ~socketOpen'
            /\ ~process'
            /\ Lookup(registry', SessionId) = NoText
      /\ ~IsRegistered
         => /\ Lookup(registry', SessionId) = NoText
            /\ \A id \in {Absent, SessionId} :
                 debuggerTerminate(id)
                   => /\ terminateCall'.target # SessionId
                      /\ id = SessionId => terminateCall'.pc = "failed"
                      /\ registry.ids = <<>>
                           => /\ terminateCall'.pc = "failed"
                              /\ terminateCall'.error = NotFound(id)
    ]_vars

\* C18 witness: the session was terminated after a disconnect request, no
\* session is left, and a later terminate without an id has failed
C18_Witness ==
  /\ terminateCall.pc = "failed"
  /\ terminateCall.error = "No active debug session"
  /\ child = "killed"
  /\ ~socketOpen
  /\ registry.ids = <<>>
  /\ \E i \in 1..Len(sent) : sent[i].command = "disconnect"

\* C19: once the session has ended by failure (the transport closed or
\* failed) and no status query is in progress, every status query made from
\* then on returns, and what it returns is the state terminated or
\* disconnected
C19_StatusAfterFailure ==
  [](SessionEnded /\ statusCall.pc = "idle"
       => /\ [](statusCall.pc = "done"
                  => status.state \in {"terminated", "disconnected"})
          /\ [](statusCall.pc \notin {"idle", "done"}
                  => <>(statusCall.pc = "done")))

\* C20: a step that leaves the session closed, the close itself included,
\* settles no outstanding request: what was pending is pending afterwards
\* and still in the pending map; and a request is only ever settled by the
\* arrival of a response that names it, never by the passing of time
C20_CloseSettlesNothing ==
  [][ \A k \in DOMAIN promises :
        promises[k].st = "pending"
          => /\ ~socketOpen'
                => /\ k \in DOMAIN promises'
                   /\ promises'[k].st = "pending"
                   /\ k \in DOMAIN pending'
             /\ (k \notin DOMAIN promises' \/ promises'[k].st # "pending")
                => \E m \in ResponseMessages(seq) :
                     m.request_seq = k /\ onMessage(m)
    ]_vars

\* C20 witness: the session is closed, events were logged, and requests 1
\* and 2 are both still outstanding
C20_Witness ==
  /\ ~socketOpen
  /\ seq = 3
  /\ 1 \in DOMAIN pending /\ promises[1].st = "pending"
  /\ 2 \in DOMAIN pending /\ promises[2].st = "pending"
  /\ Len(events) > 0

\* C21: close() kills the adapter process when the session owns one and
\* leaves any other process alone, releases the handle and closes the
\* transport in every case, and touches nothing else; on a session that is
\* already closed it changes nothing at all
C21_CloseIdempotent ==
  [][ close
        => /\ ~process'
           /\ ~socketOpen'
           /\ child' = IF process /\ child = "running" THEN "killed" ELSE child
           /\ UNCHANGED <<seq, pending, events, started, promises, sent,
                          eventCountAtLastContinue, registry>>
           /\ (~process /\ ~socketOpen) => UNCHANGED vars
    ]_vars

\* C21 witness: a session that owned its adapter has been closed, the adapter
\* is killed and the handle released, with a request still outstanding
C21_Witness ==
  /\ ~socketOpen
  /\ ~process
  /\ child = "killed"
  /\ DOMAIN pending # {}

\* the session of the most recent add call, NoText when there was no add or
\* that session has been deleted since
MostRecentAdd(h) ==
  LET adds == {i \in 1..Len(h) : h[i].op = "add"} IN
  IF adds = {} THEN NoText
  ELSE LET i == CHOOSE a \in adds : \A b \in adds : b <= a IN
       IF \E j \in (i + 1)..Len(h) : h[j].op = "delete" /\ h[j].id = h[i].id
         THEN NoText ELSE h[i].id

\* C22: after any sequence of add and delete calls, resolving without an id
\* returns the session of the most recent add, when that session has not
\* been deleted since
C22_ResolveMostRecent ==
  MostRecentAdd(history) # NoText
    => getLastOrSpecific(registry, Absent) = MostRecentAdd(history)

\* C22 witness: the most recent add is not the last entry in insertion
\* order (s1 was added again after s2), and a delete has been served
C22_Witness ==
  /\ MostRecentAdd(history) = SessionId
  /\ registry.ids = <<SessionId, OtherId>>
  /\ \E j \in 1..Len(history) : history[j].op = "delete"

\* C23: resolving without an id finds no session only when the registry is
\* empty; when the most recent session has been deleted it finds the last
\* session in insertion order, which is registered
C23_ResolveFallsBack ==
  LET found == getLastOrSpecific(registry, Absent) IN
  /\ found = NoText <=> registry.ids = <<>>
  /\ found # NoText => Lookup(registry, found) = found
  /\ (MostRecentAdd(history) = NoText /\ registry.ids # <<>>)
       => found = registry.ids[Len(registry.ids)]

\* C23 witness: the most recent session has been deleted while two others
\* are still registered
C23_Witness ==
  /\ MostRecentAdd(history) = NoText
  /\ Len(registry.ids) = 2
  /\ registry.last = NoText

\* C24: delete(id) removes the entry of id and no other, keeps the order of
\* the rest, clears the most-recent pointer exactly when it named id and
\* otherwise leaves it as it was, and changes nothing when id is not
\* registered
C24_DeleteFrame ==
  [][ \A id \in SessionIds :
        registryDelete(id)
          => /\ Lookup(registry', id) = NoText
             /\ registry'.ids = SelectSeq(registry.ids, LAMBDA x : x # id)
             /\ registry'.last = IF registry.last = id THEN NoText
                                 ELSE registry.last
             /\ Lookup(registry, id) = NoText => registry' = registry
    ]_vars

\* C24 witness: the most recent of three sessions has been deleted, the
\* pointer is cleared and the two others are left in their order
C24_Witness ==
  /\ registry = [ids |-> <<SessionId, OtherId>>, last |-> NoText]
  /\ history[Len(history)] = Op("delete", "s3")

\* C25: a command given a session id that is not registered fails with
\* "Session <id> not found" and resolves no other session; a command given
\* no id fails, with "No active debug session", exactly when no session is
\* registered
C25_LookupErrors ==
  [][ \A id \in SessionIdArgs :
        debuggerTerminate(id)
          => /\ (id # Absent /\ Lookup(registry, id) = NoText)
                => /\ terminateCall'.pc = "failed"
                   /\ terminateCall'.error = "Session " \o id \o " not found"
             /\ id = Absent
                => /\ terminateCall'.pc = "failed" <=> registry.ids = <<>>
                   /\ terminateCall'.pc = "failed"
                        => terminateCall'.error = "No active debug session"
    ]_vars

\* C26: readEvents(since, limit) returns the log entries at ordinals
\* since .. min(since + limit, length) - 1 in log order, and as resume
\* ordinal since plus the number of entries returned; with since at or past
\* the end of the log it returns no entry and the resume ordinal since
C26_ReadEventsSlice ==
  \A since \in 0..MaxSince, limit \in ReadLimits :
    LET last == IF since + limit < Len(events) THEN since + limit
                ELSE Len(events)
        count == IF last > since THEN last - since ELSE 0
        read == readEvents(since, limit)
    IN  /\ Len(read) = count
        /\ \A i \in 1..count : read[i] = events[since + i]
        /\ nextSeq(since, limit) = since + count
        /\ since >= Len(events)
             => read = <<>> /\ nextSeq(since, limit) = since
        /\ (lastRead.since = since /\ lastRead.limit = limit
             /\ lastRead.at = Len(events))
             => lastRead.events = read /\ lastRead.nextSeq = since + count

\* C26 witness: a call on a log of two different events has returned the
\* first of them, cut off by its limit
C26_Witness ==
  /\ Len(events) = 2
  /\ events[1] # events[2]
  /\ lastRead.since = 0 /\ lastRead.limit = 1 /\ lastRead.at = 2
  /\ lastRead.events = <<events[1]>>
  /\ lastRead.nextSeq = 1

\* C27: a readEvents call changes neither the event log, the pending map,
\* the seq counter nor the continue marker, also when its caller reverses
\* the returned list in place; a call with the arguments of the call before
\* it, no event having been logged in between, returns what that call did
C27_ReadEventsPure ==
  [][ \A since \in 0..MaxSince, limit \in ReadLimits,
         reverses \in BOOLEAN :
        readEventsCall(since, limit, reverses)
          => /\ UNCHANGED <<events, pending, seq, eventCountAtLastContinue>>
             /\ (lastRead.since = since /\ lastRead.limit = limit
                  /\ lastRead.at = Len(events))
                  => /\ lastRead'.events = lastRead.events
                     /\ lastRead'.nextSeq = lastRead.nextSeq
    ]_vars

\* C27 witness: the whole log, two different events, has been read by a
\* handler with the handlers' limit, and the log is as it was delivered
C27_Witness ==
  /\ Len(events) = 2
  /\ events[1] # events[2]
  /\ lastRead.since = 0 /\ lastRead.limit = ReadLimit /\ lastRead.at = 2
  /\ lastRead.events = events

\* C28: pushing write(m) into a reader with an empty buffer emits exactly
\* the message m and no error and leaves the buffer empty, for every message,
\* also one with two-byte characters; and the Content-Length that write puts
\* in the header is the number of bytes that follow the header
C28_RoundTrip ==
  [][ \A m \in WireMessages :
        (buffer = <<>> /\ push(write(m)))
          => /\ emitted' = Append(emitted, MessageOut(m))
             /\ buffer' = <<>>
             /\ serverUp'
             /\ ParseInt(HeaderMatch(SubSeq(write(m), 1,
                                            IndexOfHeaderEnd(write(m)))))
                  = Len(write(m)) - IndexOfHeaderEnd(write(m)) - 4
    ]_vars

\* C28 witness: a message of one ASCII and four two-byte characters, written
\* with a two-digit Content-Length, has come out of one push
C28_Witness ==
  /\ stream.chunks = 1
  /\ emitted = <<MessageOut(<<EAcute, "a", EAcute, EAcute, EAcute>>)>>
  /\ buffer = <<>>
  /\ \E i \in 1..(Len(stream.bytes) - 1) :
       stream.bytes[i] = "1" /\ stream.bytes[i + 1] = "1"

\* C29: whatever chunks the bytes received so far came in, what the reader
\* has emitted and what it holds in its buffer is what one push of all those
\* bytes into a new reader emits and holds
C29_ChunkingInvisible ==
  [buffer |-> buffer, emitted |-> emitted, threw |-> ~serverUp]
    = readerProcess(stream.bytes, <<>>)

\* C29 witness: two frames of two-byte characters have arrived in five or
\* more chunks and both messages are out
C29_Witness ==
  /\ stream.chunks >= 5
  /\ emitted = <<MessageOut(<<EAcute>>), MessageOut(<<EAcute>>)>>
  /\ buffer = <<>>

\* C30: a message delivered on one session's transport changes that session
\* only: a step of one session's onMessage leaves the other session's seq,
\* pending requests, promises and event log as they were, also when both
\* have a request of the same seq outstanding
C30_SessionsIndependent ==
  [][ /\ \A m \in ResponseMessages(MaxPeerSeq + 1) \cup ReadEventMessages :
           onMessage(m) => peer' = peer
      /\ \A m \in ResponseMessages(MaxPeerSeq + 1) \cup ReadEventMessages :
           peerOnMessage(m)
             => UNCHANGED <<seq, pending, promises, events>>
    ]_vars

\* C30 witness: both sessions issued a request of seq 1; the answer on the
\* first session's transport settled its request, the second session's is
\* still pending, and an event was logged by the second session only
C30_Witness ==
  /\ 1 \in DOMAIN promises /\ promises[1].st = "resolved"
  /\ 1 \in DOMAIN peer.pending /\ peer.promises[1].st = "pending"
  /\ Len(peer.events) = 1
  /\ events = <<>>

\* C31: a frame whose body is not JSON is dropped with a decode error and
\* nothing is thrown out of the data handler, so the server lives on and every
\* complete frame received is decoded: no complete frame is left in the
\* buffer
C31_BadFrameOnly ==
  /\ serverUp
  /\ readerProcess(buffer, <<>>) =
       [buffer |-> buffer, emitted |-> <<>>, threw |-> FALSE]

\* C32: when what stands before the first header end holds no Content-Length
\* value, a push drops exactly the bytes up through that header end, emits
\* nothing for them and goes on with what follows as if they had not been
\* there; a well-formed frame behind them is emitted
C32_HeaderlessSkipped ==
  [][ LET chunk == SubSeq(stream'.bytes, Len(stream.bytes) + 1,
                          Len(stream'.bytes))
          all == buffer \o chunk
          headerEnd == IndexOfHeaderEnd(all)
      IN  ( /\ stream' # stream
            /\ headerEnd # -1
            /\ HeaderMatch(SubSeq(all, 1, headerEnd)) = <<>>
            /\ push(chunk) )
            => /\ LET r == readerProcess(SubSeq(all, headerEnd + 5, Len(all)),
                                        emitted)
                  IN  buffer' = r.buffer /\ emitted' = r.emitted
               /\ \A m \in WireMessages :
                    (buffer = <<>> /\ chunk = Headerless \o write(m))
                      => /\ emitted' = Append(emitted, MessageOut(m))
                         /\ buffer' = <<>>
                         /\ serverUp'
    ]_vars

\* C32 witness: bytes without Content-Length and the frame of a message
\* have arrived, the message is out and nothing is left
C32_Witness ==
  /\ stream.bytes = Headerless \o write(<<EAcute>>)
  /\ emitted = <<MessageOut(<<EAcute>>)>>
  /\ buffer = <<>>
  /\ serverUp

\* the chunks of one stream among chunks of both
RECURSIVE OfType(_, _)
OfType(chunks, t) ==
  IF chunks = <<>> THEN <<>>
  ELSE IF Head(chunks).type = t
    THEN <<Head(chunks)>> \o OfType(Tail(chunks), t)
  ELSE OfType(Tail(chunks), t)

SentAs(k, command) ==
  \E i \in 1..Len(sent) : sent[i].seq = k /\ sent[i].command = command

\* C34: `started` is false before the session is built and while it is new;
\* it never goes from true to false; and it goes from false to true only in a
\* step in which the promise of the session's attach request, or of a
\* configurationDone request a debuggerContinue call awaits, is held resolved,
\* which is by a success response: never with the promise pending or rejected
C34_StartedOnlyBySuccess ==
  /\ ~started
  /\ [][ /\ started => started'
         /\ (~started /\ started') =>
              \E k \in DOMAIN promises :
                /\ promises[k].st = "resolved"
                /\ k \notin DOMAIN pending
                /\ \/ k = run.start /\ SentAs(k, "attach")
                   \/ /\ SentAs(k, "configurationDone")
                      /\ \/ continueCall.pc # "idle" /\ k = continueCall.await
                         \/ overlapCall.pc # "idle" /\ k = overlapCall.await
     ]_vars

\* C34 witness: the adapter has rejected a first configurationDone, which
\* left `started` false, and answered a second one with success, after which
\* `started` is true
C34_Witness ==
  /\ started
  /\ startRequest(run.type) = "launch"
  /\ Len(sent) = 4
  /\ sent[3].command = "configurationDone"
  /\ sent[4].command = "configurationDone"
  /\ continueCall.pc = "idle"
  /\ overlapCall.pc = "idle"

\* C37: the state a debuggerStatus call reports is the one inferred from the
\* newest stopped, continued and terminated events of the whole log,
\* however long the log is
C37_WholeLogRead ==
  [][ (statusCall.pc = "idle" /\ statusCall'.pc # "idle")
        => status'.state = inferState(events, eventCountAtLastContinue)
    ]_vars

\* C35: a step in which a debuggerContinue call starts sends one request and
\* no more: configurationDone when `started` is false, and otherwise continue
\* for the thread of the newest stopped event of the log, or for thread 1
\* when the log has no stopped event or that event names no thread
C35_ContinueRequest ==
  [][ (continueCall.pc = "idle" /\ continueCall'.pc # "idle")
        => sent' = Append(sent,
                     [seq |-> seq, type |-> "request",
                      command |-> IF ~started THEN "configurationDone"
                                  ELSE "continue",
                      arguments |->
                        IF ~started THEN 0
                        ELSE OrElse(lastStoppedEventOf(events).threadId, 1)])
    ]_vars

\* C36: in every state the keys of pending are seqs below the next seq, each
\* mapped to the command its request was sent with, and a request that was
\* issued is in pending exactly while its promise is unsettled; a promise
\* that has been settled stays as it was settled and its seq stays out of
\* pending, and the handling of another response with that request_seq
\* changes neither pending nor any promise
C36_PendingExact ==
  /\ [](/\ DOMAIN pending \subseteq 1..(seq - 1)
        /\ DOMAIN promises = 1..(seq - 1)
        /\ \A k \in 1..(seq - 1) :
             /\ k \in DOMAIN pending <=> promises[k].st = "pending"
             /\ k \in DOMAIN pending => pending[k] = sent[k].command)
  /\ [][ /\ \A k \in DOMAIN promises :
              promises[k].st # "pending"
                => promises'[k] = promises[k] /\ k \notin DOMAIN pending'
         /\ \A m \in AnyResponse :
              ( /\ m.request_seq \in DOMAIN promises
                /\ promises[m.request_seq].st # "pending"
                /\ onMessage(m) )
                => UNCHANGED <<pending, promises>>
     ]_vars

\* C36 witness: of two requests issued the first has been rejected and is
\* out of pending, the second is outstanding, and the session is closed
C36_Witness ==
  /\ seq = 3
  /\ promises[1].st = "rejected"
  /\ promises[2].st = "pending"
  /\ DOMAIN pending = {2}
  /\ ~socketOpen

\* C38: a session the registry returns, by its id or as the most recent
\* one, has not been closed
C38_RegisteredIsLive ==
  \A id \in {SessionId, Absent} :
    getLastOrSpecific(registry, id) = SessionId => socketOpen

\* C39: of the requests sent on the session at most one is configurationDone
C39_ConfigurationDoneOnce ==
  Cardinality({i \in 1..Len(sent) : sent[i].command = "configurationDone"}) <= 1

\* C40: a debuggerTerminate call that has resolved the session and awaits
\* the response to disconnect goes on to complete, with the process killed,
\* the session closed and its registry entry removed
C40_TerminateCompletes ==
  (terminateCall.pc = "disconnect")
    ~> ( /\ terminateCall.pc = "done"
         /\ child # "running"
         /\ ~socketOpen
         /\ ~IsRegistered )

====
